---------------------------- MODULE Spec2Model ----------------------------
(***************************************************************************)
(* A model of FABulous/fabric_generator/file_parser.py.                    *)
(*                                                                         *)
(* Python strings are modelled as sequences of one-character strings, so   *)
(* that find / slicing / re.split / substring tests are computed as the    *)
(* code computes them.  Each parser is a small state machine of its own    *)
(* (with its own specification); the variables of the parsers that a       *)
(* specification does not run stay at their idle values.                   *)
(***************************************************************************)
EXTENDS Integers, Sequences, FiniteSets, TLC

VARIABLES
    \* _expandListPorts(port, PortList)
    port,        \* the port expression handed to the call
    PortList,    \* the caller's output list, appended in place
    expOutcome,  \* "pending" | "ok" | "ValueError" | "RecursionError"
    \* parseList(fileName, collect)
    file,        \* the lines of the list file
    collect,     \* "pair" | "source" | "sink"
    lineIdx,     \* number of lines consumed by the for loop
    resultList,  \* the concatenation of all lines' zipped pairs
    listReturn,  \* the returned value (pair list, or dict as ordered items)
    listOutcome, \* "idle" | "running" | "ok" | "InvalidListLine" | the expander's errors
    \* parseFileVHDL / parseFileVerilog (filename, belPrefix)
    syntax,      \* "vhdl" | "verilog": which of the two parsers runs
    belMap,      \* the entries of the BelMap attribute block of the file
    mentions,    \* the lines of the file that name NoConfigBits, in order
    belMapDic,   \* the configuration-bit map (dict as ordered items)
    noConfigBits,\* the local variable noConfigBits
    belPc,       \* "idle" | "map" | "count" | "ports" | "recount" | "return" | "done" | "ValueError"
    belReturn,   \* the returned tuple (count and map; the port lists are left out)
    \* generateSwitchmatrixList(tileName, bels, outFile, carryportsTile)
    bels,            \* the bel list: inputs, outputs and carry dict of each
    carryportsTile,  \* the tile's carry pair (dict as items), empty when none
    templateFile,    \* the lines of CLB_DUMMY_switchmatrix.list
    belIns,          \* bel inputs left after the carry ports are removed
    belOuts,         \* bel outputs left after the carry ports are removed
    carryports,      \* carryports[IO.INPUT] and carryports[IO.OUTPUT]
    smResultList,    \* the template's expanded pairs (resultList)
    replaceDic,      \* slot name -> bel port name
    sinks_num,       \* template sinks with more than 4 connections -> count
    connections,     \* source -> list of sinks
    walkIdx,         \* pairs of the template consumed by the walk
    emitIdx,         \* sources consumed by the loop that writes listfile
    configBit,       \* the running configuration-bit count
    listfile,        \* the lines of the generated list
    outFile,         \* the lines written to the output path
    smReturn,        \* the returned count
    smPc,            \* "idle" | "gather" | "template" | "walk" | "emit" | "carry" | "write" | "done" | an error
    \* parseFabricCSV(fileName)
    tilesData,         \* the TILE ... EndTILE blocks of the file
    superTile,         \* the SuperTILE ... EndSuperTILE blocks
    fabricDescription, \* the lines between FabricBegin and FabricEnd, split at ","
    parameters,        \* the lines between ParametersBegin and ParametersEnd
    tileIdx,           \* tile blocks consumed by the loop of line 82
    recIdx,            \* lines of the current block consumed by the loop of line 93
    ports,             \* the current tile's Port list
    tileBels,          \* the current tile's Bel list (bels)
    tileCarry,         \* the current tile's carry pair (dict as items)
    matrixDir,         \* the current tile's matrix path
    withUserCLK,       \* the current tile's clock flag
    tileConfigBit,     \* the current tile's configBit
    genMatrixList,     \* the current tile asked for a generated matrix
    tileTypes,         \* the tile names, in file order
    tileDefs,          \* the Tile objects, in file order
    commonWirePair,    \* the (source, destination) name pairs
    tileDic,           \* tile name -> Tile (dict as items)
    superTileDic,      \* super tile name -> SuperTile (dict as items)
    stIdx,             \* super tile blocks consumed by the loop of line 186
    fabricTiles,       \* the grid rows built so far
    usedTile,          \* the tile names placed on the grid
    rowIdx,            \* grid lines consumed by the loop of line 229
    fabParams,         \* the parsed parameters
    fabric,            \* the returned Fabric
    fabPc,             \* "idle" | "tiles" | "records" | "super" | "grid" | "params" | "return" | "done" | an error
    \* parseConfigMem(fileName, maxFramePerCol, frameBitPerRow, globalConfigBits)
    mappingFile,        \* the rows of the csv file, as csv.DictReader yields them
    maxFramePerCol,     \* the argument maxFramePerCol
    frameBitPerRow,     \* the argument frameBitPerRow
    globalConfigBits,   \* the argument globalConfigBits
    usedBitsCounter,    \* the running total of '1's in the masks
    allConfigBitsOrder, \* the indices allocated by the rows done so far
    configMemEntry,     \* the ConfigMem list built so far
    cmIdx,              \* rows consumed by the loop of line 875
    cmReturn,           \* the returned list
    cmPc                \* "idle" | "strip" | "masks" | "rows" | "done" | "ValueError"

varsE == <<port, PortList, expOutcome>>
varsL == <<file, collect, lineIdx, resultList, listReturn, listOutcome>>
varsB == <<syntax, belMap, mentions, belMapDic, noConfigBits, belPc, belReturn>>
varsS == <<bels, carryportsTile, templateFile, belIns, belOuts, carryports,
          smResultList, replaceDic, sinks_num, connections, walkIdx, emitIdx,
          configBit, listfile, outFile, smReturn, smPc>>
varsF == <<tilesData, superTile, fabricDescription, parameters, tileIdx,
          recIdx, ports, tileBels, tileCarry, matrixDir, withUserCLK,
          tileConfigBit, genMatrixList, tileTypes, tileDefs, commonWirePair,
          tileDic, superTileDic, stIdx, fabricTiles, usedTile, rowIdx,
          fabParams, fabric, fabPc>>
varsC == <<mappingFile, maxFramePerCol, frameBitPerRow, globalConfigBits,
          usedBitsCounter, allConfigBitsOrder, configMemEntry, cmIdx,
          cmReturn, cmPc>>
vars == <<varsE, varsL, varsB, varsS, varsF, varsC>>

\* what a step of one parser leaves alone: the other parsers' variables
OnlyE == UNCHANGED <<varsL, varsB, varsS, varsF, varsC>>
OnlyL == UNCHANGED <<varsE, varsB, varsS, varsF, varsC>>
OnlyB == UNCHANGED <<varsE, varsL, varsS, varsF, varsC>>
OnlyS == UNCHANGED <<varsE, varsL, varsB, varsF, varsC>>
OnlyF == UNCHANGED <<varsE, varsL, varsB, varsS, varsC>>
OnlyC == UNCHANGED <<varsE, varsL, varsB, varsS, varsF>>

---------------------------------------------------------------------------
(* Bounds of the model *)

\* every string over Alphabet of at most MaxLen characters is an input
MaxLen == 5
\* the interpreter's recursion limit, scaled down (sys.getrecursionlimit())
RecursionLimit == 6
\* list files have at most MaxLines lines
MaxLines == 3
\* a BelMap block has at most MaxEntries entries
MaxEntries == 2
\* a bel file names NoConfigBits on at most MaxMentions lines
MaxMentions == 2
\* a tile has at most MaxBels bels
MaxBels == 2
\* the template list has at most MaxTemplateLines lines
MaxTemplateLines == 2

---------------------------------------------------------------------------
(* Python string primitives *)

\* str.find(c): 0-based index of the first occurrence, -1 when absent
Find(s, c) ==
    IF \E i \in 1..Len(s) : s[i] = c
    THEN (CHOOSE i \in 1..Len(s) : s[i] = c /\ \A j \in 1..(i-1) : s[j] # c) - 1
    ELSE -1

\* c in s
Contains(s, c) == \E i \in 1..Len(s) : s[i] = c

\* s[i:j] for 0 <= i, 0 <= j (empty when j <= i)
Slice(s, i, j) ==
    LET hi == IF j > Len(s) THEN Len(s) ELSE j
    IN  IF hi <= i THEN <<>> ELSE SubSeq(s, i + 1, hi)

\* s.split(c) / re.split(c, s): always at least one piece
RECURSIVE Split(_, _)
Split(s, c) ==
    LET k == Find(s, c)
    IN  IF k = -1 THEN <<s>>
        ELSE <<Slice(s, 0, k)>> \o Split(Slice(s, k + 1, Len(s)), c)

\* "".join(s for s in seq if ...) helpers
RECURSIVE Remove(_, _)
Remove(s, c) ==
    IF s = <<>> THEN <<>>
    ELSE (IF Head(s) = c THEN <<>> ELSE <<Head(s)>>) \o Remove(Tail(s), c)

RECURSIVE FilterNonEmpty(_)
FilterNonEmpty(seq) ==
    IF seq = <<>> THEN <<>>
    ELSE (IF Head(seq) = <<>> THEN <<>> ELSE <<Head(seq)>>)
         \o FilterNonEmpty(Tail(seq))

---------------------------------------------------------------------------
(* _expandListPorts *)

left_index(p) == Find(p, "[")

right_index_last(p) ==
    IF Contains(p, "]")
    THEN (CHOOSE i \in 1..Len(p) : p[i] = "]" /\ \A j \in (i+1)..Len(p) : p[j] # "]") - 1
    ELSE -1

right_index(p) == Find(p, "]")

before_left_index(p) == Slice(p, 0, left_index(p))

after_right_index(p) == Slice(p, right_index(p) + 1, Len(p))

ExpandList(p) == Split(Slice(p, left_index(p) + 1, right_index(p)), "|")

\* The call _expandListPorts(p, acc) at recursion depth d.  The result is
\* the state of the caller's list when the call ends and how it ends: the
\* list keeps what was appended before an exception was raised.
RECURSIVE expandListPorts(_, _, _)
RECURSIVE expandEntries(_, _, _, _)
expandListPorts(p, acc, d) ==
    IF d > RecursionLimit THEN [list |-> acc, err |-> "RecursionError"]
    ELSE IF Contains(p, "[")
    THEN IF ~Contains(p, "]")
         THEN [list |-> acc, err |-> "ValueError"]
         ELSE expandEntries(p, ExpandList(p), acc, d)
    ELSE [list |-> Append(acc, p), err |-> "ok"]

\* the for loop over ExpandList: an exception ends it
expandEntries(p, entries, acc, d) ==
    IF entries = <<>> THEN [list |-> acc, err |-> "ok"]
    ELSE LET ExpandListItem ==
                 before_left_index(p) \o Head(entries) \o after_right_index(p)
             r == expandListPorts(ExpandListItem, acc, d + 1)
         IN  IF r.err # "ok" THEN r
             ELSE expandEntries(p, Tail(entries), r.list, d)

---------------------------------------------------------------------------
(* Inputs of the expander *)

Alphabet == {"a", "b", "[", "]", "|"}

Strings(n) == UNION {[1..k -> Alphabet] : k \in 0..n}

ExAxyB == <<"A", "[", "x", "|", "y", "]", "B">>
ExNested == <<"A", "[", "x", "|", "y", "[", "1", "|", "2", "]", "]", "B">>
ExTwoGroups == <<"[", "a", "|", "b", "]", "x", "[", "c", "|", "d", "]">>

PortInputs == Strings(MaxLen) \cup {ExAxyB, ExNested, ExTwoGroups}

ExpandIdle == port = <<>> /\ PortList = <<>> /\ expOutcome = "idle"

ExpandCall ==
    /\ expOutcome = "pending"
    /\ LET r == expandListPorts(port, <<>>, 1)
       IN  /\ PortList' = r.list
           /\ expOutcome' = r.err
    /\ UNCHANGED port
    /\ OnlyE

ListIdle ==
    /\ file = <<>> /\ collect = "pair" /\ lineIdx = 0
    /\ resultList = <<>> /\ listReturn = <<>> /\ listOutcome = "idle"

BelIdle ==
    /\ syntax = "verilog" /\ belMap = <<>> /\ mentions = <<>>
    /\ belMapDic = <<>> /\ noConfigBits = 0 /\ belPc = "idle"
    /\ belReturn = <<>>

SwitchIdle ==
    /\ bels = <<>> /\ carryportsTile = <<>> /\ templateFile = <<>>
    /\ belIns = <<>> /\ belOuts = <<>> /\ carryports = <<>>
    /\ smResultList = <<>> /\ replaceDic = <<>> /\ sinks_num = <<>>
    /\ connections = <<>> /\ walkIdx = 0 /\ emitIdx = 0 /\ configBit = 0
    /\ listfile = <<>> /\ outFile = <<>> /\ smReturn = 0 /\ smPc = "idle"

FabricIdle ==
    /\ tilesData = <<>> /\ superTile = <<>> /\ fabricDescription = <<>>
    /\ parameters = <<>> /\ tileIdx = 0 /\ recIdx = 0 /\ ports = <<>>
    /\ tileBels = <<>> /\ tileCarry = <<>> /\ matrixDir = <<>>
    /\ withUserCLK = FALSE /\ tileConfigBit = 0 /\ genMatrixList = FALSE
    /\ tileTypes = <<>> /\ tileDefs = <<>> /\ commonWirePair = <<>>
    /\ tileDic = <<>> /\ superTileDic = <<>> /\ stIdx = 0
    /\ fabricTiles = <<>> /\ usedTile = {} /\ rowIdx = 0
    /\ fabParams = <<>> /\ fabric = <<>> /\ fabPc = "idle"

ConfigIdle ==
    /\ mappingFile = <<>> /\ maxFramePerCol = 0 /\ frameBitPerRow = 0
    /\ globalConfigBits = 0 /\ usedBitsCounter = 0
    /\ allConfigBitsOrder = <<>> /\ configMemEntry = <<>> /\ cmIdx = 0
    /\ cmReturn = <<>> /\ cmPc = "idle"

InitExpand ==
    /\ port \in PortInputs
    /\ PortList = <<>>
    /\ expOutcome = "pending"
    /\ ListIdle
    /\ BelIdle
    /\ SwitchIdle
    /\ FabricIdle
    /\ ConfigIdle

NextExpand == ExpandCall

SpecExpand == InitExpand /\ [][NextExpand]_vars

---------------------------------------------------------------------------
(* Bracket structure of a port expression, for stating the claims *)

RECURSIVE SortedSeq(_)
SortedSeq(S) ==
    IF S = {} THEN <<>>
    ELSE LET m == CHOOSE x \in S : \A y \in S : x <= y
         IN  <<m>> \o SortedSeq(S \ {m})

Opens(p) == SortedSeq({i \in 1..Len(p) : p[i] = "["})
Closes(p) == SortedSeq({i \in 1..Len(p) : p[i] = "]"})

CountIn(p, c, i, j) == Cardinality({k \in i..j : p[k] = c})

\* nesting depth after the first i characters
DepthAt(p, i) == CountIn(p, "[", 1, i) - CountIn(p, "]", 1, i)

Balanced(p) ==
    /\ \A i \in 1..Len(p) : DepthAt(p, i) >= 0
    /\ DepthAt(p, Len(p)) = 0

\* balanced, and no group inside another
BalancedFlat(p) == Balanced(p) /\ \A i \in 1..Len(p) : DepthAt(p, i) <= 1

\* balanced, with a group inside an alternative of another and no deeper
NestedOnce(p) ==
    /\ Balanced(p)
    /\ \A i \in 1..Len(p) : DepthAt(p, i) <= 2
    /\ \E i \in 1..Len(p) : DepthAt(p, i) = 2

\* the '[' at position i is never closed
UnmatchedAt(p, i) ==
    /\ p[i] = "["
    /\ \A j \in i..Len(p) : CountIn(p, "[", i, j) > CountIn(p, "]", i, j)

HasUnmatchedOpen(p) == \E i \in 1..Len(p) : UnmatchedAt(p, i)

\* For a flat balanced expression: the text between group k and group k+1
\* (k = 0: before the first group; k = number of groups: after the last)
Literal(p, k) ==
    LET o == Opens(p)
        c == Closes(p)
        from == IF k = 0 THEN 1 ELSE c[k] + 1
        to == IF k = Len(o) THEN Len(p) ELSE o[k + 1] - 1
    IN  IF to < from THEN <<>> ELSE SubSeq(p, from, to)

\* the alternatives of group k, in written order
Alternatives(p, k) ==
    LET from == Opens(p)[k] + 1
        to == Closes(p)[k] - 1
    IN  Split(IF to < from THEN <<>> ELSE SubSeq(p, from, to), "|")

RECURSIVE Weight(_, _)
\* the number of combinations of the groups to the right of group k
Weight(p, k) ==
    IF k >= Len(Opens(p)) THEN 1
    ELSE Len(Alternatives(p, k + 1)) * Weight(p, k + 1)

RECURSIVE Substituted(_, _, _)
\* combination m (0-based), from group k on: leftmost group varies slowest
Substituted(p, m, k) ==
    IF k > Len(Opens(p)) THEN <<>>
    ELSE LET alts == Alternatives(p, k)
             choice == (m \div Weight(p, k)) % Len(alts)
         IN  alts[choice + 1] \o Literal(p, k) \o Substituted(p, m, k + 1)

CrossProduct(p) ==
    [m \in 1..Weight(p, 0) |-> Literal(p, 0) \o Substituted(p, m - 1, 1)]

NoBrackets(s) == ~Contains(s, "[") /\ ~Contains(s, "]")

ExpandDone == expOutcome \in {"ok", "ValueError", "RecursionError"}

---------------------------------------------------------------------------
(* Claims about _expandListPorts *)

\* C1: for every balanced expression without nested groups the call returns
\* the left-to-right cross product of the alternatives (leftmost group
\* varying slowest, alternatives in written order), and an expression
\* without '[' yields the one-element sequence holding the expression.
C1_CrossProduct ==
    ExpandDone =>
        /\ BalancedFlat(port) =>
               expOutcome = "ok" /\ PortList = CrossProduct(port)
        /\ ~Contains(port, "[") =>
               expOutcome = "ok" /\ PortList = <<port>>

\* two groups of two alternatives have been expanded into four strings
C1_Witness ==
    /\ expOutcome = "ok"
    /\ port = ExTwoGroups
    /\ Len(PortList) = 4

\* C2: a group nested inside an alternative of another group is expanded
\* only within that alternative and the results hold no bracket;
\* A[x|y[1|2]]B expands to AxB, Ay1B, Ay2B.
C2_NestedExpansion ==
    ExpandDone =>
        /\ NestedOnce(port) =>
               /\ expOutcome = "ok"
               /\ \A i \in 1..Len(PortList) : NoBrackets(PortList[i])
        /\ port = ExNested =>
               PortList = << <<"A", "x", "B">>,
                             <<"A", "y", "1", "B">>,
                             <<"A", "y", "2", "B">> >>

\* C3: an expression with a '[' that has no matching ']' after it fails
\* with the malformed-expression error (ValueError) and nothing is appended.
C3_UnmatchedOpenFails ==
    ExpandDone =>
        (HasUnmatchedOpen(port) =>
             expOutcome = "ValueError" /\ PortList = <<>>)

---------------------------------------------------------------------------
(* parseList *)

\* re.sub(r"#.*", "", file), seen on one line
StripComment(line) ==
    IF Contains(line, "#") THEN Slice(line, 0, Find(line, "#")) ELSE line

\* line.replace(" ", "").replace("\t", "").split(","), empty fields dropped
Fields(line) ==
    FilterNonEmpty(Split(Remove(Remove(StripComment(line), " "), "\t"), ","))

\* list(zip(a, b)): the excess of the longer list is dropped
Zip(a, b) ==
    [i \in 1..(IF Len(a) < Len(b) THEN Len(a) ELSE Len(b)) |-> <<a[i], b[i]>>]

Range(seq) == {seq[i] : i \in 1..Len(seq)}

RECURSIVE DedupKeepLast(_)
DedupKeepLast(seq) ==
    IF seq = <<>> THEN <<>>
    ELSE (IF Head(seq) \in Range(Tail(seq)) THEN <<>> ELSE <<Head(seq)>>)
         \o DedupKeepLast(Tail(seq))

RECURSIVE DedupInto(_, _)
DedupInto(acc, seq) ==
    IF seq = <<>> THEN acc
    ELSE DedupInto(IF Head(seq) \in Range(acc) THEN acc
                   ELSE Append(acc, Head(seq)), Tail(seq))

\* list(dict.fromkeys(seq)): a key keeps the place of its first insertion
Dedup(seq) == DedupInto(<<>>, seq)

\* A dict is the sequence of its items <<key, list>> in insertion order.
Keys(d) == {d[i][1] : i \in 1..Len(d)}

Get(d, k) == LET i == CHOOSE i \in 1..Len(d) : d[i][1] = k IN d[i][2]

\* if k not in d: d[k] = [];  d[k].append(v)
DictAppend(d, k, v) ==
    IF k \in Keys(d)
    THEN [i \in 1..Len(d) |->
              IF d[i][1] = k THEN <<k, Append(d[i][2], v)>> ELSE d[i]]
    ELSE Append(d, <<k, <<v>>>>)

RECURSIVE CollectSource(_, _)
\* for k, v in result: resultDic[k].append(v)
CollectSource(d, result) ==
    IF result = <<>> THEN d
    ELSE CollectSource(DictAppend(d, Head(result)[1], Head(result)[2]),
                       Tail(result))

RECURSIVE AppendEach(_, _, _)
\* for i in v: resultDic[i].append(k)   (i ranges over the characters of v)
AppendEach(d, v, k) ==
    IF v = <<>> THEN d
    ELSE AppendEach(DictAppend(d, <<Head(v)>>, k), Tail(v), k)

RECURSIVE CollectSink(_, _)
CollectSink(d, result) ==
    IF result = <<>> THEN d
    ELSE CollectSink(AppendEach(d, Head(result)[2], Head(result)[1]),
                     Tail(result))

\* one iteration of the for loop over the lines: the pairs it adds, or the
\* exception it raises
ParseLine(line) ==
    LET f == Fields(line)
    IN  IF f = <<>> THEN [pairs |-> <<>>, err |-> "ok"]
        ELSE IF Len(f) # 2 THEN [pairs |-> <<>>, err |-> "InvalidListLine"]
        ELSE LET l == expandListPorts(f[1], <<>>, 1)
                 r == expandListPorts(f[2], <<>>, 1)
             IN  IF l.err # "ok" THEN [pairs |-> <<>>, err |-> l.err]
                 ELSE IF r.err # "ok" THEN [pairs |-> <<>>, err |-> r.err]
                 ELSE [pairs |-> Zip(l.list, r.list), err |-> "ok"]

LnAB == <<"a", ",", "b">>   \* a,b
LnABC == <<"a", ",", "b", "c">>   \* a,bc
LnDupInLine == <<"[", "a", "|", "a", "]", ",", "[", "b", "|", "b", "]">>   \* [a|a],[b|b]
LnTwoPairs == <<"[", "a", "|", "c", "]", ",", "[", "b", "|", "b", "c", "]">>   \* [a|c],[b|bc]
LnComment == <<"c", " ", ",", "b", " ", "#", " ", "x">>   \* c ,b # x
LnBlank == <<" ">>   \*  
LnOneField == <<"a">>   \* a
LnMalformed == <<"a", "[", ",", "b">>   \* a[,b
LnTruncated == <<"[", "a", "|", "b", "]", ",", "c">>   \* [a|b],c

LineChoices ==
    {LnAB, LnABC, LnDupInLine, LnTwoPairs, LnComment, LnBlank, LnOneField,
     LnMalformed, LnTruncated}

ListFiles == UNION {[1..n -> LineChoices] : n \in 0..MaxLines}

ListLine ==
    /\ listOutcome = "running"
    /\ lineIdx < Len(file)
    /\ LET r == ParseLine(file[lineIdx + 1])
       IN  /\ r.err = "ok"
           /\ resultList' = resultList \o r.pairs
    /\ lineIdx' = lineIdx + 1
    /\ UNCHANGED <<file, collect, listReturn, listOutcome>>
    /\ OnlyL

\* "ValueError" stands for both messages of the code: the list formatting
\* one (InvalidListLine) and the expander's "cannot find closing ]"
ListRaise ==
    /\ listOutcome = "running"
    /\ lineIdx < Len(file)
    /\ LET r == ParseLine(file[lineIdx + 1])
       IN  /\ r.err # "ok"
           /\ listOutcome' = r.err
    /\ UNCHANGED <<file, collect, lineIdx, resultList, listReturn>>
    /\ OnlyL

ListCollect ==
    /\ listOutcome = "running"
    /\ lineIdx = Len(file)
    /\ LET result == Dedup(resultList)
       IN  listReturn' =
               IF collect = "source" THEN CollectSource(<<>>, result)
               ELSE IF collect = "sink" THEN CollectSink(<<>>, result)
               ELSE result
    /\ listOutcome' = "ok"
    /\ UNCHANGED <<file, collect, lineIdx, resultList>>
    /\ OnlyL

InitList ==
    /\ file \in ListFiles
    /\ collect \in {"pair", "source", "sink"}
    /\ lineIdx = 0
    /\ resultList = <<>>
    /\ listReturn = <<>>
    /\ listOutcome = "running"
    /\ ExpandIdle
    /\ BelIdle
    /\ SwitchIdle
    /\ FabricIdle
    /\ ConfigIdle

NextList == ListLine \/ ListRaise \/ ListCollect

SpecList == InitList /\ [][NextList]_vars

---------------------------------------------------------------------------
(* Claims about parseList *)

\* 1-based index of the first occurrence of x in seq
FirstIndex(seq, x) ==
    CHOOSE i \in 1..Len(seq) : seq[i] = x /\ \A j \in 1..(i-1) : seq[j] # x

RECURSIVE SourcesOf(_, _)
\* the sources paired with sink k, in the order of the pairs
SourcesOf(pairs, k) ==
    IF pairs = <<>> THEN <<>>
    ELSE (IF Head(pairs)[2] = k THEN <<Head(pairs)[1]>> ELSE <<>>)
         \o SourcesOf(Tail(pairs), k)

\* C4: in pair mode the returned sequence holds every produced pair exactly
\* once, at the place of its first occurrence in the concatenation of all
\* lines' pairs: no repeats, same elements, first-occurrence order.
C4_PairDedup ==
    (listOutcome = "ok" /\ collect = "pair") =>
        /\ \A i, j \in 1..Len(listReturn) :
               i # j => listReturn[i] # listReturn[j]
        /\ Range(listReturn) = Range(resultList)
        /\ \A i, j \in 1..Len(listReturn) :
               i < j => FirstIndex(resultList, listReturn[i])
                            < FirstIndex(resultList, listReturn[j])

\* a pair produced again by a later line was dropped: the last raw pair is a
\* repeat of the first returned one, and other pairs lie in between
C4_Witness ==
    /\ listOutcome = "ok" /\ collect = "pair"
    /\ Len(file) >= 2
    /\ Len(listReturn) >= 2
    /\ Len(resultList) > Len(listReturn)
    /\ resultList[Len(resultList)] = listReturn[1]

\* C5: in sink mode the keys of the returned dict are exactly the sink names
\* of the deduplicated pairs, each mapped to the sources paired with it in
\* first-seen pair order.
C5_SinkInversion ==
    (listOutcome = "ok" /\ collect = "sink") =>
        LET pairs == Dedup(resultList)
        IN  /\ Keys(listReturn) = {pairs[i][2] : i \in 1..Len(pairs)}
            /\ \A i \in 1..Len(listReturn) :
                   listReturn[i][2] = SourcesOf(pairs, listReturn[i][1])

---------------------------------------------------------------------------
(* Numbers and their text *)

Digits == <<"0", "1", "2", "3", "4", "5", "6", "7", "8", "9">>

IsDigit(c) == \E i \in 1..10 : Digits[i] = c

DigitValue(c) == (CHOOSE i \in 1..10 : Digits[i] = c) - 1

\* str.isnumeric() / what int() accepts here: one or more decimal digits
IsNumeric(s) == s # <<>> /\ \A i \in 1..Len(s) : IsDigit(s[i])

RECURSIVE ParseInt(_)
\* int(s) for a numeric s
ParseInt(s) ==
    IF s = <<>> THEN 0
    ELSE 10 * ParseInt(SubSeq(s, 1, Len(s) - 1)) + DigitValue(s[Len(s)])

RECURSIVE Bin(_)
\* f"{n:b}"
Bin(n) == IF n < 2 THEN <<Digits[n + 1]>> ELSE Bin(n \div 2) \o <<Digits[(n % 2) + 1]>>

\* int.bit_length()
bit_length(n) == IF n = 0 THEN 0 ELSE Len(Bin(n))

RECURSIVE Pow2(_)
Pow2(n) == IF n = 0 THEN 1 ELSE 2 * Pow2(n - 1)

\* f"{n:0{w}b}": binary, padded with zeros to at least w characters
FormatBin(n, w) ==
    LET b == Bin(n)
    IN  [i \in 1..(IF w > Len(b) THEN w - Len(b) ELSE 0) |-> "0"] \o b

---------------------------------------------------------------------------
(* _belMapProcessing (files without a BelEnum block) *)

\* str.rsplit("_", 1)
RSplitUnderscore(s) ==
    IF ~Contains(s, "_") THEN <<s>>
    ELSE LET k == CHOOSE i \in 1..Len(s) :
                      s[i] = "_" /\ \A j \in (i+1)..Len(s) : s[j] # "_"
         IN  <<SubSeq(s, 1, k - 1), SubSeq(s, k + 1, Len(s))>>

\* bel[0] after the "_<digits>" suffix is folded into "[<digits>]"
BelKey(name) ==
    LET belNameTemp == RSplitUnderscore(name)
    IN  IF Len(belNameTemp) > 1 /\ IsNumeric(belNameTemp[2])
        THEN belNameTemp[1] \o <<"[">> \o belNameTemp[2] \o <<"]">>
        ELSE name

\* d[key] = value: a new key goes last, an old key keeps its place
DictSet(d, k, v) ==
    IF k \in Keys(d)
    THEN [i \in 1..Len(d) |-> IF d[i][1] = k THEN <<k, v>> ELSE d[i]]
    ELSE Append(d, <<k, v>>)

\* for v in range(len(bitMap)-1, -1, -1): d[v] = bitMap.pop(0)
BitDict(bitMap) == [j \in 1..Len(bitMap) |-> <<Len(bitMap) - j, bitMap[j]>>]

\* the entries of a ranged feature name=start:end
RangeDict(start, end) ==
    IF start > end
    THEN LET length == start - end + 1
         IN  [j \in 1..Pow2(length) |->
                  LET i == Pow2(length) - j
                  IN  <<i, BitDict(FormatBin(i, bit_length(length)))>>]
    ELSE LET length == end - start + 1
         IN  [j \in 1..Pow2(length) |->
                  LET i == j - 1
                  IN  <<i, BitDict(FormatBin(Pow2(length) - i - 1,
                                             bit_length(length)))>>]

\* the value stored for one entry name=value
BelValue(value) ==
    IF Contains(value, ":")
    THEN LET r == Split(value, ":")
         IN  RangeDict(ParseInt(r[1]), ParseInt(r[2]))
    ELSE << <<0, << <<0, "1">> >> >> >>

RECURSIVE belMapProcessing(_, _)
\* for bel in belMap: ...
belMapProcessing(d, entries) ==
    IF entries = <<>> THEN d
    ELSE LET bel == Split(Head(entries), "=")
         IN  belMapProcessing(DictSet(d, BelKey(bel[1]), BelValue(bel[2])),
                              Tail(entries))

---------------------------------------------------------------------------
(* parseFileVHDL and parseFileVerilog: the configuration-bit count *)

\* A line naming NoConfigBits is [form, tok]:
\*   "integer":  NoConfigBits : integer := <tok>
\*   "natural":  NoConfigBits : natural := <tok>
\*   "assign":   NoConfigBits = <tok>
\* and tok, the rest of the line, is one word.

\* the first maximal run of digits of s, <<>> when s has no digit
FirstDigits(s) ==
    IF \E i \in 1..Len(s) : IsDigit(s[i])
    THEN LET from == CHOOSE i \in 1..Len(s) :
                         IsDigit(s[i]) /\ \A j \in 1..(i-1) : ~IsDigit(s[j])
             to == CHOOSE j \in from..Len(s) :
                       /\ \A k \in from..j : IsDigit(s[k])
                       /\ (j = Len(s) \/ ~IsDigit(s[j + 1]))
         IN  SubSeq(s, from, to)
    ELSE <<>>

\* re.search(r"NoConfigBits.*?=.*?(\d+)", file): every form holds an '=';
\* the leftmost line with a digit after it matches
CountMatches(lines) == {i \in 1..Len(lines) : FirstDigits(lines[i].tok) # <<>>}

\* lines 466-471 and 648-653
FirstCount(lines) ==
    IF CountMatches(lines) = {} THEN 0
    ELSE LET i == CHOOSE i \in CountMatches(lines) :
                      \A j \in CountMatches(lines) : i <= j
         IN  ParseInt(FirstDigits(lines[i].tok))

\* re.search(r"NoConfigBits\s*:\s*integer\s*:=\s*(\w+)", file)
GenericMatches(lines) == {i \in 1..Len(lines) : lines[i].form = "integer"}

\* lines 538-550: int(group(1)), 0 on ValueError or without a match
SecondCount(lines) ==
    IF GenericMatches(lines) = {} THEN 0
    ELSE LET i == CHOOSE i \in GenericMatches(lines) :
                      \A j \in GenericMatches(lines) : i <= j
         IN  IF IsNumeric(lines[i].tok) THEN ParseInt(lines[i].tok) ELSE 0

EntScalar == <<"A", "=", "0">>   \* A=0
EntIndexed == <<"A", "_", "1", "=", "1">>   \* A_1=1
EntScalarAgain == <<"A", "=", "3">>   \* A=3
EntRangeDown == <<"B", "=", "1", ":", "0">>   \* B=1:0
EntRangeUp == <<"C", "=", "0", ":", "2">>   \* C=0:2

EntRangeDownThree == <<"E", "=", "2", ":", "0">>   \* E=2:0

EntryChoices ==
    {EntScalar, EntIndexed, EntScalarAgain, EntRangeDown, EntRangeUp,
     EntRangeDownThree}

BelMaps == UNION {[1..n -> EntryChoices] : n \in 0..MaxEntries}

TokChoices == {<<"1">>, <<"2">>, <<"N", "1">>}

MentionChoices == [form : {"integer", "natural", "assign"}, tok : TokChoices]

MentionLists == UNION {[1..n -> MentionChoices] : n \in 0..MaxMentions}

\* belMapDic = _belMapProcessing(file, filename, syntax)
BelMapStep ==
    /\ belPc = "map"
    /\ belMapDic' = belMapProcessing(<<>>, belMap)
    /\ belPc' = "count"
    /\ UNCHANGED <<syntax, belMap, mentions, noConfigBits, belReturn>>
    /\ OnlyB

\* the first NoConfigBits search and the comparison with len(belMapDic)
BelCountOk ==
    /\ belPc = "count"
    /\ noConfigBits' = FirstCount(mentions)
    /\ Len(belMapDic) = FirstCount(mentions)
    /\ belPc' = "ports"
    /\ UNCHANGED <<syntax, belMap, mentions, belMapDic, belReturn>>
    /\ OnlyB

BelCountMismatch ==
    /\ belPc = "count"
    /\ noConfigBits' = FirstCount(mentions)
    /\ Len(belMapDic) # FirstCount(mentions)
    /\ belPc' = "ValueError"
    /\ UNCHANGED <<syntax, belMap, mentions, belMapDic, belReturn>>
    /\ OnlyB

\* the scan of the port declarations ends normally, or raises (VHDL: no
\* port section, no "-- GLOBAL" marker; both: a bad carry declaration)
BelPortsOk ==
    /\ belPc = "ports"
    /\ belPc' = IF syntax = "vhdl" THEN "recount" ELSE "return"
    /\ UNCHANGED <<syntax, belMap, mentions, belMapDic, noConfigBits, belReturn>>
    /\ OnlyB

BelPortsRaise ==
    /\ belPc = "ports"
    /\ belPc' = "ValueError"
    /\ UNCHANGED <<syntax, belMap, mentions, belMapDic, noConfigBits, belReturn>>
    /\ OnlyB

\* parseFileVHDL searches NoConfigBits a second time before it returns
BelRecount ==
    /\ belPc = "recount"
    /\ noConfigBits' = SecondCount(mentions)
    /\ belPc' = "return"
    /\ UNCHANGED <<syntax, belMap, mentions, belMapDic, belReturn>>
    /\ OnlyB

BelReturn ==
    /\ belPc = "return"
    /\ belReturn' = [noConfigBits |-> noConfigBits, belMapDic |-> belMapDic]
    /\ belPc' = "done"
    /\ UNCHANGED <<syntax, belMap, mentions, belMapDic, noConfigBits>>
    /\ OnlyB

InitBel ==
    /\ syntax \in {"vhdl", "verilog"}
    /\ belMap \in BelMaps
    /\ mentions \in MentionLists
    /\ belMapDic = <<>>
    /\ noConfigBits = 0
    /\ belPc = "map"
    /\ belReturn = <<>>
    /\ ExpandIdle
    /\ ListIdle
    /\ SwitchIdle
    /\ FabricIdle
    /\ ConfigIdle

NextBel ==
    \/ BelMapStep
    \/ BelCountOk
    \/ BelCountMismatch
    \/ BelPortsOk
    \/ BelPortsRaise
    \/ BelRecount
    \/ BelReturn

SpecBel == InitBel /\ [][NextBel]_vars

---------------------------------------------------------------------------
(* Claims about the bel parsers *)

\* C6: for every bel source accepted by parseFileVerilog or parseFileVHDL
\* the configuration-bit count of the returned tuple equals the number of
\* distinct keys of the returned configuration-bit map.
C6_CountEqualsKeys ==
    belPc = "done" =>
        belReturn.noConfigBits = Cardinality(Keys(belReturn.belMapDic))

---------------------------------------------------------------------------
(* generateSwitchmatrixList *)

\* the template handles at most 32 bel inputs and 8 bel outputs
MaxBelInputs == 32
MaxBelOutputs == 8
\* a template sink is a redirection target when it has more than 4 connections
SinkCountThreshold == 4
\* output slots are numbered modulo 8, input slots in groups of 4
OutputSlots == 8
InputGroup == 4

RECURSIVE IntToStr(_)
\* str(n) for n >= 0
IntToStr(n) ==
    IF n < 10 THEN <<Digits[n + 1]>>
    ELSE IntToStr(n \div 10) \o <<Digits[(n % 10) + 1]>>

\* sub in s
ContainsSub(s, sub) ==
    \E i \in 0..(Len(s) - Len(sub)) : SubSeq(s, i + 1, i + Len(sub)) = sub

CLB == <<"C", "L", "B">>

\* f"CLB{math.floor(i/4)}_I{i%4}"
InputSlot(i) ==
    CLB \o IntToStr(i \div InputGroup) \o <<"_", "I">> \o IntToStr(i % InputGroup)

\* f"CLB{i%8}_O"
OutputSlot(i) == CLB \o IntToStr(i % OutputSlots) \o <<"_", "O">>

RECURSIVE Flatten(_)
\* sum(lists, [])
Flatten(seqs) ==
    IF seqs = <<>> THEN <<>> ELSE Head(seqs) \o Flatten(Tail(seqs))

\* list.remove(x) for an x of the list: the first occurrence goes
RemoveFirst(list, x) ==
    LET k == CHOOSE i \in 1..Len(list) :
                 list[i] = x /\ \A j \in 1..(i-1) : list[j] # x
    IN  SubSeq(list, 1, k - 1) \o SubSeq(list, k + 1, Len(list))

RECURSIVE GatherCarry(_, _)
\* for carry in belCarrys: ...   (st: the lists so far)
GatherCarry(st, carrys) ==
    IF carrys = <<>> THEN st
    ELSE LET carry == Head(carrys)
         IN  IF "INPUT" \notin Keys(carry) THEN [st EXCEPT !.err = "KeyError"]
             ELSE IF Get(carry, "INPUT") \notin Range(st.ins)
             THEN [st EXCEPT !.err = "ValueError"]
             ELSE IF "OUTPUT" \notin Keys(carry)
             THEN [st EXCEPT !.err = "KeyError"]
             ELSE IF Get(carry, "OUTPUT") \notin Range(st.outs)
             THEN [st EXCEPT !.err = "ValueError"]
             ELSE GatherCarry(
                      [ins |-> RemoveFirst(st.ins, Get(carry, "INPUT")),
                       outs |-> RemoveFirst(st.outs, Get(carry, "OUTPUT")),
                       cin |-> Append(st.cin, Get(carry, "INPUT")),
                       cout |-> Append(st.cout, Get(carry, "OUTPUT")),
                       err |-> "ok"],
                      Tail(carrys))

\* lines 937-965: the port inventory without the carry ports, the carry
\* lists, and the capacity checks
Gather(bs) ==
    LET st == GatherCarry(
                  [ins |-> Flatten([k \in 1..Len(bs) |-> bs[k].inputs]),
                   outs |-> Flatten([k \in 1..Len(bs) |-> bs[k].outputs]),
                   cin |-> <<>>, cout |-> <<>>, err |-> "ok"],
                  [k \in 1..Len(bs) |-> bs[k].carry])
    IN  IF st.err # "ok" THEN st
        ELSE IF Len(st.ins) > MaxBelInputs \/ Len(st.outs) > MaxBelOutputs
        THEN [st EXCEPT !.err = "ValueError"]
        ELSE st

RECURSIVE ParseLines(_, _)
\* lines 970-988: the loop of parseList, copied
ParseLines(acc, lines) ==
    IF lines = <<>> THEN [pairs |-> acc, err |-> "ok"]
    ELSE LET r == ParseLine(Head(lines))
         IN  IF r.err # "ok" THEN [pairs |-> acc, err |-> r.err]
             ELSE ParseLines(acc \o r.pairs, Tail(lines))

\* lines 991-995
BuildReplaceDic(ins, outs) ==
    LET d1 == [i \in 1..Len(ins) |-> <<InputSlot(i - 1), ins[i]>>]
        RECURSIVE SetAll(_, _)
        SetAll(d, i) ==
            IF i > Len(outs) THEN d
            ELSE SetAll(DictSet(d, OutputSlot(i - 1), outs[i]), i + 1)
    IN  SetAll(d1, 1)

Count(seq, x) == Cardinality({i \in 1..Len(seq) : seq[i] = x})

\* lines 998-999
BuildSinksNum(pairs) ==
    LET sinks == [i \in 1..Len(pairs) |-> pairs[i][2]]
        kept == Dedup(sinks)
        RECURSIVE Keep(_)
        Keep(ks) ==
            IF ks = <<>> THEN <<>>
            ELSE (IF Count(sinks, Head(ks)) > SinkCountThreshold
                  THEN << <<Head(ks), Count(sinks, Head(ks))>> >> ELSE <<>>)
                 \o Keep(Tail(ks))
    IN  Keep(kept)

\* min(sinks_num, key=sinks_num.get): the first key with the least count
MinSink(d) ==
    LET i == CHOOSE i \in 1..Len(d) :
                 /\ \A j \in 1..Len(d) : d[i][2] <= d[j][2]
                 /\ \A j \in 1..(i-1) : d[j][2] > d[i][2]
    IN  d[i][1]

Replace(d, name) == IF name \in Keys(d) THEN Get(d, name) ELSE name

\* muxsize.bit_length() - 1
MuxBits(muxsize) == bit_length(muxsize) - 1

RECURSIVE Join(_, _)
\* sep.join(seq) for a non-empty seq
Join(seq, sep) ==
    IF Len(seq) = 1 THEN seq[1]
    ELSE seq[1] \o sep \o Join(Tail(seq), sep)

\* f"{source},{sinks[0]}"
DirectLine(source, sink) == source \o <<",">> \o sink

\* f"{ltmp},{rtmp}": [source|source|...],[sink0|sink1|...]
AlternationLine(source, sinks) ==
    <<"[">> \o Join([i \in 1..Len(sinks) |-> source], <<"|">>) \o <<"]", ",", "[">>
    \o Join(sinks, <<"|">>) \o <<"]">>

\* f"# WARNING: Muxsize {muxsize} for source {source}"
WarningLine(muxsize, source) ==
    <<"#", " ", "W", "A", "R", "N", "I", "N", "G", ":", " ", "M",
      "u", "x", "s", "i", "z", "e", " ">>
    \o IntToStr(muxsize) \o
    <<" ", "f", "o", "r", " ", "s", "o", "u", "r", "c", "e", " ">>
    \o source

\* "# Connect carrychain"
CarryComment ==
    <<"#", " ", "C", "o", "n", "n", "e", "c", "t", " ", 
      "c", "a", "r", "r", "y", "c", "h", "a", "i", "n">>

\* the lines one source adds to listfile (lines 1024-1041)
SourceLines(source, sinks) ==
    LET muxsize == Len(sinks)
    IN  (IF muxsize % 2 # 0 /\ muxsize > 1
         THEN <<WarningLine(muxsize, source)>> ELSE <<>>)
        \o (IF muxsize = 1 THEN <<DirectLine(source, sinks[1])>>
            ELSE <<AlternationLine(source, sinks)>>)

---------------------------------------------------------------------------
(* Inputs of the synthesizer *)

BelLetters == <<"A", "B", "C", "D">>

\* a bel without carry ports
PlainBel(k) ==
    [inputs |-> << <<BelLetters[k], "i">> >>,
     outputs |-> << <<BelLetters[k], "o">> >>,
     carry |-> <<>>]

\* a bel with a carry input and a carry output
CarryBel(k) ==
    [inputs |-> << <<BelLetters[k], "i">>, <<BelLetters[k], "c">> >>,
     outputs |-> << <<BelLetters[k], "o">>, <<BelLetters[k], "d">> >>,
     carry |-> << <<"INPUT", <<BelLetters[k], "c">>>>,
                  <<"OUTPUT", <<BelLetters[k], "d">>>> >>]

\* a carry bel with one output more than the template has slots
WideBel(k) ==
    [inputs |-> << <<BelLetters[k], "i">>, <<BelLetters[k], "c">> >>,
     outputs |-> [j \in 1..(MaxBelOutputs + 1) |-> <<BelLetters[k], "o">> \o IntToStr(j)]
                 \o << <<BelLetters[k], "d">> >>,
     carry |-> << <<"INPUT", <<BelLetters[k], "c">>>>,
                  <<"OUTPUT", <<BelLetters[k], "d">>>> >>]

BelAt(shape, k) ==
    IF shape = "plain" THEN PlainBel(k)
    ELSE IF shape = "carry" THEN CarryBel(k) ELSE WideBel(k)

BelLists ==
    UNION {{[k \in 1..n |-> BelAt(shapes[k], k)] :
                shapes \in [1..n -> {"plain", "carry", "wide"}]} : n \in 0..MaxBels}

\* tileCarry of parseFabricCSV for a declaration NORTH,Co,0,-1,Ci,1,CARRY
TileCarry ==
    << <<"OUTPUT", <<"C", "o", "0">>>>, <<"INPUT", <<"C", "i", "0">>>> >>

\* [CLB0_I0|CLB0_I0|CLB0_I0|CLB0_I0|CLB0_I0],[w|x|y|z|CLB0_O]
TplFive ==
    <<"[", "C", "L", "B", "0", "_", "I", "0", "|", "C", "L", "B", "0", "_",
    "I", "0", "|", "C", "L", "B", "0", "_", "I", "0", "|", "C", "L", "B",
    "0", "_", "I", "0", "|", "C", "L", "B", "0", "_", "I", "0", "]", ",",
    "[", "w", "|", "x", "|", "y", "|", "z", "|", "C", "L", "B", "0", "_",
    "O", "]">>

\* [y|y|y|y|y],[w|w|w|w|w]
TplRepeated ==
    <<"[", "y", "|", "y", "|", "y", "|", "y", "|", "y", "]", ",", "[", "w",
    "|", "w", "|", "w", "|", "w", "|", "w", "]">>

\* CLB0_I1,CLB1_O
TplDirect ==
    <<"C", "L", "B", "0", "_", "I", "1", ",", "C", "L", "B", "1", "_", "O">>

\* [x|x|x],[w|CLB0_O|CLB1_O]
TplThree ==
    <<"[", "x", "|", "x", "|", "x", "]", ",", "[", "w", "|", "C", "L", "B",
    "0", "_", "O", "|", "C", "L", "B", "1", "_", "O", "]">>

\* a[,b
TplMalformed ==
    <<"a", "[", ",", "b">>

\* [s|s|s],A[x|y[1|2]]B
TplNested ==
    <<"[", "s", "|", "s", "|", "s", "]", ",", "A", "[", "x", "|", "y", "[",
    "1", "|", "2", "]", "]", "B">>

\* [y|y|y|y|y],[CLB1_O|CLB1_O|CLB1_O|CLB1_O|CLB1_O]
TplSlotSink ==
    <<"[", "y", "|", "y", "|", "y", "|", "y", "|", "y", "]", ",", "[",
    "C", "L", "B", "1", "_", "O", "|", "C", "L", "B", "1", "_", "O", "|",
    "C", "L", "B", "1", "_", "O", "|", "C", "L", "B", "1", "_", "O", "|",
    "C", "L", "B", "1", "_", "O", "]">>

TemplateChoices ==
    {TplFive, TplRepeated, TplDirect, TplThree, TplMalformed, TplNested,
     TplSlotSink}

Templates == UNION {[1..n -> TemplateChoices] : n \in 0..MaxTemplateLines}

---------------------------------------------------------------------------
(* The steps of generateSwitchmatrixList *)

\* lines 937-965 without an exception
SmGather ==
    /\ smPc = "gather"
    /\ LET st == Gather(bels)
       IN  /\ st.err = "ok"
           /\ belIns' = st.ins
           /\ belOuts' = st.outs
           /\ carryports' = << <<"INPUT", st.cin>>, <<"OUTPUT", st.cout>> >>
    /\ smPc' = "template"
    /\ UNCHANGED <<bels, carryportsTile, templateFile, smResultList,
                   replaceDic, sinks_num, connections, walkIdx, emitIdx,
                   configBit, listfile, outFile, smReturn>>
    /\ OnlyS

\* a bel without a carry entry (KeyError), or more ports than the template
\* has slots (ValueError)
SmGatherRaise ==
    /\ smPc = "gather"
    /\ Gather(bels).err # "ok"
    /\ smPc' = Gather(bels).err
    /\ UNCHANGED <<bels, carryportsTile, templateFile, belIns, belOuts,
                   carryports, smResultList, replaceDic, sinks_num,
                   connections, walkIdx, emitIdx, configBit, listfile,
                   outFile, smReturn>>
    /\ OnlyS

\* lines 970-999: the template's pairs, replaceDic and sinks_num
SmTemplate ==
    /\ smPc = "template"
    /\ LET r == ParseLines(<<>>, templateFile)
       IN  /\ r.err = "ok"
           /\ smResultList' = r.pairs
           /\ sinks_num' = BuildSinksNum(r.pairs)
    /\ replaceDic' = BuildReplaceDic(belIns, belOuts)
    /\ smPc' = "walk"
    /\ UNCHANGED <<bels, carryportsTile, templateFile, belIns, belOuts,
                   carryports, connections, walkIdx, emitIdx, configBit,
                   listfile, outFile, smReturn>>
    /\ OnlyS

SmTemplateRaise ==
    /\ smPc = "template"
    /\ ParseLines(<<>>, templateFile).err # "ok"
    /\ smPc' = ParseLines(<<>>, templateFile).err
    /\ UNCHANGED <<bels, carryportsTile, templateFile, belIns, belOuts,
                   carryports, smResultList, replaceDic, sinks_num,
                   connections, walkIdx, emitIdx, configBit, listfile,
                   outFile, smReturn>>
    /\ OnlyS

\* one iteration of the loop of lines 1002-1018: the source is still a slot
SmWalkDrop ==
    /\ smPc = "walk"
    /\ walkIdx < Len(smResultList)
    /\ ContainsSub(Replace(replaceDic, smResultList[walkIdx + 1][1]), CLB)
    /\ walkIdx' = walkIdx + 1
    /\ UNCHANGED <<bels, carryportsTile, templateFile, belIns, belOuts,
                   carryports, smResultList, replaceDic, sinks_num,
                   connections, emitIdx, configBit, listfile, outFile,
                   smReturn, smPc>>
    /\ OnlyS

\* ... the source and the sink are real
SmWalkKeep ==
    /\ smPc = "walk"
    /\ walkIdx < Len(smResultList)
    /\ LET source == Replace(replaceDic, smResultList[walkIdx + 1][1])
           sink == Replace(replaceDic, smResultList[walkIdx + 1][2])
       IN  /\ ~ContainsSub(source, CLB)
           /\ ~ContainsSub(sink, CLB)
           /\ connections' = DictAppend(connections, source, sink)
    /\ walkIdx' = walkIdx + 1
    /\ UNCHANGED <<bels, carryportsTile, templateFile, belIns, belOuts,
                   carryports, smResultList, replaceDic, sinks_num, emitIdx,
                   configBit, listfile, outFile, smReturn, smPc>>
    /\ OnlyS

\* ... the sink is still a slot: the sink with the lowest count replaces it
SmWalkRedirect ==
    /\ smPc = "walk"
    /\ walkIdx < Len(smResultList)
    /\ sinks_num # <<>>
    /\ LET source == Replace(replaceDic, smResultList[walkIdx + 1][1])
           sink == MinSink(sinks_num)
       IN  /\ ~ContainsSub(source, CLB)
           /\ ContainsSub(Replace(replaceDic, smResultList[walkIdx + 1][2]), CLB)
           /\ sinks_num' = DictSet(sinks_num, sink, Get(sinks_num, sink) + 1)
           /\ connections' = DictAppend(connections, source, sink)
    /\ walkIdx' = walkIdx + 1
    /\ UNCHANGED <<bels, carryportsTile, templateFile, belIns, belOuts,
                   carryports, smResultList, replaceDic, emitIdx, configBit,
                   listfile, outFile, smReturn, smPc>>
    /\ OnlyS

\* ... and no template sink has more than 4 connections: min() of an empty
\* dict raises ValueError
SmWalkRaise ==
    /\ smPc = "walk"
    /\ walkIdx < Len(smResultList)
    /\ sinks_num = <<>>
    /\ ~ContainsSub(Replace(replaceDic, smResultList[walkIdx + 1][1]), CLB)
    /\ ContainsSub(Replace(replaceDic, smResultList[walkIdx + 1][2]), CLB)
    /\ smPc' = "ValueError"
    /\ UNCHANGED <<bels, carryportsTile, templateFile, belIns, belOuts,
                   carryports, smResultList, replaceDic, sinks_num,
                   connections, walkIdx, emitIdx, configBit, listfile,
                   outFile, smReturn>>
    /\ OnlyS

SmWalkEnd ==
    /\ smPc = "walk"
    /\ walkIdx = Len(smResultList)
    /\ smPc' = "emit"
    /\ UNCHANGED <<bels, carryportsTile, templateFile, belIns, belOuts,
                   carryports, smResultList, replaceDic, sinks_num,
                   connections, walkIdx, emitIdx, configBit, listfile,
                   outFile, smReturn>>
    /\ OnlyS

\* one iteration of the loop of lines 1023-1041
SmEmit ==
    /\ smPc = "emit"
    /\ emitIdx < Len(connections)
    /\ LET source == connections[emitIdx + 1][1]
           sinks == connections[emitIdx + 1][2]
       IN  /\ listfile' = listfile \o SourceLines(source, sinks)
           /\ configBit' = IF Len(sinks) = 1 THEN configBit
                           ELSE configBit + MuxBits(Len(sinks))
    /\ emitIdx' = emitIdx + 1
    /\ UNCHANGED <<bels, carryportsTile, templateFile, belIns, belOuts,
                   carryports, smResultList, replaceDic, sinks_num,
                   connections, walkIdx, outFile, smReturn, smPc>>
    /\ OnlyS

SmEmitEnd ==
    /\ smPc = "emit"
    /\ emitIdx = Len(connections)
    /\ smPc' = "carry"
    /\ UNCHANGED <<bels, carryportsTile, templateFile, belIns, belOuts,
                   carryports, smResultList, replaceDic, sinks_num,
                   connections, walkIdx, emitIdx, configBit, listfile,
                   outFile, smReturn>>
    /\ OnlyS

\* each line with its two names the other way round
CarryLinesSwapped(ins, outs) ==
    [i \in 1..Len(ins) |-> DirectLine(outs[i], ins[i])]

\* lines 1057-1058: for cin, cout in zip(...): f"{cin},{cout}"
CarryLines(ins, outs) ==
    [i \in 1..Len(ins) |-> DirectLine(ins[i], outs[i])]

\* lines 1044-1058: carryports is a dict with two keys, hence always true
SmCarryChain ==
    /\ smPc = "carry"
    /\ carryportsTile # <<>>
    /\ LET outs == <<Get(carryportsTile, "INPUT")>> \o Get(carryports, "OUTPUT")
           ins == Append(Get(carryports, "INPUT"), Get(carryportsTile, "OUTPUT"))
       IN  /\ carryports' = << <<"INPUT", ins>>, <<"OUTPUT", outs>> >>
           /\ Len(ins) = Len(outs)
           /\ listfile' = listfile \o <<CarryComment>>
                          \o CarryLines(ins, outs)
    /\ smPc' = "write"
    /\ UNCHANGED <<bels, carryportsTile, templateFile, belIns, belOuts,
                   smResultList, replaceDic, sinks_num, connections, walkIdx,
                   emitIdx, configBit, outFile, smReturn>>
    /\ OnlyS

SmNoCarry ==
    /\ smPc = "carry"
    /\ carryportsTile = <<>>
    /\ smPc' = "write"
    /\ UNCHANGED <<bels, carryportsTile, templateFile, belIns, belOuts,
                   carryports, smResultList, replaceDic, sinks_num,
                   connections, walkIdx, emitIdx, configBit, listfile,
                   outFile, smReturn>>
    /\ OnlyS

\* lines 1060-1064
SmWrite ==
    /\ smPc = "write"
    /\ outFile' = listfile
    /\ smReturn' = configBit
    /\ smPc' = "done"
    /\ UNCHANGED <<bels, carryportsTile, templateFile, belIns, belOuts,
                   carryports, smResultList, replaceDic, sinks_num,
                   connections, walkIdx, emitIdx, configBit, listfile>>
    /\ OnlyS

InitSwitch ==
    /\ bels \in BelLists
    /\ carryportsTile \in {<<>>, TileCarry}
    /\ templateFile \in Templates
    /\ belIns = <<>> /\ belOuts = <<>> /\ carryports = <<>>
    /\ smResultList = <<>> /\ replaceDic = <<>> /\ sinks_num = <<>>
    /\ connections = <<>> /\ walkIdx = 0 /\ emitIdx = 0 /\ configBit = 0
    /\ listfile = <<>> /\ outFile = <<>> /\ smReturn = 0
    /\ smPc = "gather"
    /\ ExpandIdle
    /\ ListIdle
    /\ BelIdle
    /\ FabricIdle
    /\ ConfigIdle

NextSwitch ==
    \/ SmGather
    \/ SmGatherRaise
    \/ SmTemplate
    \/ SmTemplateRaise
    \/ SmWalkDrop
    \/ SmWalkKeep
    \/ SmWalkRedirect
    \/ SmWalkRaise
    \/ SmWalkEnd
    \/ SmEmit
    \/ SmEmitEnd
    \/ SmCarryChain
    \/ SmNoCarry
    \/ SmWrite

SpecSwitch == InitSwitch /\ [][NextSwitch]_vars

---------------------------------------------------------------------------
(* Claims about generateSwitchmatrixList *)

\* ceil(log2(k)) for k >= 1: the least n with 2^n >= k
CeilLog2(k) == CHOOSE n \in 0..k : Pow2(n) >= k /\ \A j \in 0..(n-1) : Pow2(j) < k

RECURSIVE SumCeilBits(_)
\* the sum of ceil(log2(fan-in)) over the sources with fan-in >= 2
SumCeilBits(conn) ==
    IF conn = <<>> THEN 0
    ELSE (IF Len(Head(conn)[2]) >= 2 THEN CeilLog2(Len(Head(conn)[2])) ELSE 0)
         + SumCeilBits(Tail(conn))

\* C7: the returned configuration-bit count is the sum, over every emitted
\* source with fan-in k >= 2, of ceil(log2(k)) (fan-in 1 adds 0, fan-in 5
\* adds 3).
C7_CeilLog2Bits ==
    smPc = "done" => smReturn = SumCeilBits(connections)

---------------------------------------------------------------------------
(* parseFabricCSV: the fabric description assembler.

   A line of a TILE block is the record of its comma-separated fields:
   tag is temp[0], f1..f5 are temp[1]..temp[5] (strings), f6 is temp[6].
   The files a BEL or MATRIX line names are read by the parsers modelled
   above; the line carries what that call yields: lines is the content of a
   .list file, bits the count found in a bel or matrix source, clk the bel's
   userClk.  Tile names, grid tokens and tags are compared whole and never
   taken apart, so they are plain strings. *)

MaxRecords == 2
MaxRows == 2

oppositeDicSame ==
    [NORTH |-> "NORTH", SOUTH |-> "SOUTH", EAST |-> "EAST", WEST |-> "WEST"]

oppositeDic ==
    [NORTH |-> "SOUTH", SOUTH |-> "NORTH", EAST |-> "WEST", WEST |-> "EAST"]

Directions == {"NORTH", "SOUTH", "EAST", "WEST"}

\* Optional values: None is the empty sequence, a value v is <<v>>
None == <<>>

\* s.endswith(suffix)
EndsWith(s, suffix) ==
    Len(s) >= Len(suffix) /\ SubSeq(s, Len(s) - Len(suffix) + 1, Len(s)) = suffix

\* int(s) for an optionally negated decimal numeral
IntOf(s) == IF s # <<>> /\ Head(s) = "-" THEN 0 - ParseInt(Tail(s)) ELSE ParseInt(s)

\* Port(wireDirection, sourceName, xOffset, yOffset, destinationName,
\*      wireCount, name, inOut, sideOfTile)
Port(wireDirection, temp, name, inOut, sideOfTile) ==
    [wireDirection |-> wireDirection, sourceName |-> temp.f1,
     xOffset |-> IntOf(temp.f2), yOffset |-> IntOf(temp.f3),
     destinationName |-> temp.f4, wireCount |-> IntOf(temp.f5),
     name |-> name, inOut |-> inOut, sideOfTile |-> sideOfTile]

\* lines 98-102: Side[oppositeDic[temp[0]].upper()]; the values of
\* oppositeDic are upper case already
WirePorts(temp) ==
    <<Port(temp.tag, temp, temp.f1, "OUTPUT", temp.tag),
      Port(temp.tag, temp, temp.f4, "INPUT", oppositeDic[temp.tag])>>

\* lines 121-124
JumpPorts(temp) ==
    <<Port("JUMP", temp, temp.f1, "OUTPUT", "ANY"),
      Port("JUMP", temp, temp.f4, "INPUT", "ANY")>>

\* lines 109-110: the carry pair as the items of a dict
CarryPair(temp) ==
    <<<<"OUTPUT", temp.f1 \o <<"0">>>>, <<"INPUT", temp.f4 \o <<"0">>>>>>

\* parseList(matrixDir, "source") for a well-formed list file
ParseListSource(lines) == CollectSource(<<>>, Dedup(ParseLines(<<>>, lines).pairs))

RECURSIVE MatrixBits(_)
\* lines 142-145: muxSize.bit_length()-1 summed over the sources of fan-in >= 2
MatrixBits(d) ==
    IF d = <<>> THEN 0
    ELSE (IF Len(Head(d)[2]) >= 2 THEN bit_length(Len(Head(d)[2])) - 1 ELSE 0)
         + MatrixBits(Tail(d))

ExtList == <<".", "l", "i", "s", "t">>
ExtVhdl == <<".", "v", "h", "d", "l">>
ExtV == <<".", "v">>
GENERATE == <<"G", "E", "N", "E", "R", "A", "T", "E">>
NULL == <<"N", "U", "L", "L">>

IsHdl(f) == EndsWith(f, ExtVhdl) \/ EndsWith(f, ExtV)

\* Bel(src, prefix, ..., configBit, ..., userCLK, ...): the fields the
\* assembler itself sets or reads
Bel(temp) == [src |-> temp.f1, prefix |-> temp.f2, configBit |-> temp.bits,
              withUserCLK |-> temp.clk]

\* Tile(name, ports, bels, matrixDir, userCLK, configBit); partOfSuperTile
\* defaults to False.  oid is the identity of the object: two references
\* are to the same object exactly when they carry the same oid, and a
\* constructor call or a deepcopy yields an object with a fresh one, named
\* after the place of the call
Tile(name, portsInfo, b, dir, clk, bits, oid) ==
    [name |-> name, portsInfo |-> portsInfo, bels |-> b, matrixDir |-> dir,
     withUserCLK |-> clk, configBit |-> bits, partOfSuperTile |-> FALSE,
     oid |-> oid]

\* a reference to the object itself in place of a copy
sameObject(t, oid) == t

\* copy.deepcopy(t): an equal object of its own
deepcopy(t, oid) == [t EXCEPT !.oid = oid]

\* Tile equality looks at the fields, not at the identity
SameTile(a, b) == [a EXCEPT !.oid = <<>>] = [b EXCEPT !.oid = <<>>]

RECURSIVE ZipDict(_, _, _)
\* dict(zip(tileTypes, tileDefs))
ZipDict(d, ks, vs) ==
    IF ks = <<>> \/ vs = <<>> THEN d
    ELSE ZipDict(DictSet(d, Head(ks), Head(vs)), Tail(ks), Tail(vs))

IsNullToken(i) == i = "Null" \/ i = "NULL" \/ i = "None"

\* [i for i in fabricLineTmp if i != ""]
NonEmptyFields(line) == SelectSeq(line, LAMBDA i : i # "")

\* one line of a TILE block
Rec(tag, f1, f2, f3, f4, f5, f6) ==
    [tag |-> tag, f1 |-> f1, f2 |-> f2, f3 |-> f3, f4 |-> f4, f5 |-> f5,
     f6 |-> f6, lines |-> <<>>, bits |-> 0, clk |-> FALSE]

RecNorth == Rec("NORTH", <<"N", "b">>, <<"0">>, <<"-", "1">>, <<"N", "e">>, <<"1">>, "")
RecSouth == Rec("SOUTH", <<"S", "b">>, <<"0">>, <<"1">>, <<"S", "e">>, <<"1">>, "CARRY")
RecEast == Rec("EAST", <<"E", "b">>, <<"1">>, <<"0">>, <<"E", "e">>, <<"1">>, "CARRY")
RecWest == Rec("WEST", NULL, <<"-", "1">>, <<"0">>, <<"W", "e">>, <<"2">>, "")
RecJump == Rec("JUMP", <<"J", "b">>, <<"0">>, <<"0">>, <<"J", "e">>, <<"2">>, "")
RecBel ==
    [Rec("BEL", <<"x">> \o ExtV, <<"A", "_">>, <<>>, <<>>, <<>>, "")
        EXCEPT !.bits = 2, !.clk = TRUE]
RecBelTxt == Rec("BEL", <<"x", ".", "t">>, <<"A", "_">>, <<>>, <<>>, <<>>, "")
\* a list file with the lines a,b and a,c
RecMatrixList ==
    [Rec("MATRIX", <<"m">> \o ExtList, <<>>, <<>>, <<>>, <<>>, "")
        EXCEPT !.lines = <<<<"a", ",", "b">>, <<"a", ",", "c">>>>]
\* a matrix source that says NumberOfConfigBits: 3
RecMatrixV ==
    [Rec("MATRIX", <<"m">> \o ExtV, <<>>, <<>>, <<>>, <<>>, "") EXCEPT !.bits = 3]
\* bits is what generateSwitchmatrixList returns for the tile
RecMatrixGenerate ==
    [Rec("MATRIX", GENERATE, <<>>, <<>>, <<>>, <<>>, "") EXCEPT !.bits = 1]
RecMatrixTxt == Rec("MATRIX", <<"m", ".", "t">>, <<>>, <<>>, <<>>, <<>>, "")
RecUnknown == Rec("FOO", <<>>, <<>>, <<>>, <<>>, <<>>, "")
RecBlank == Rec("", <<>>, <<>>, <<>>, <<>>, <<>>, "")

RecordChoices ==
    {RecNorth, RecSouth, RecEast, RecWest, RecJump, RecBel, RecBelTxt,
     RecMatrixList, RecMatrixV, RecMatrixGenerate, RecMatrixTxt, RecUnknown,
     RecBlank}

Blocks == UNION {[1..n -> RecordChoices] : n \in 0..MaxRecords}

\* a TILE block: the name of its first line and the lines after it
TileBlock(name, records) == [tileName |-> name, records |-> records]

\* a SuperTILE block: its name and the fields of its rows
SuperBlock(name, rows) == [name |-> name, rows |-> rows]

RowChoices ==
    {<<"T1">>, <<"T1", "T2">>, <<"T2", "Null">>, <<"None", "NULL">>,
     <<"T1", "", "T2">>, <<"T1", "X">>, <<"">>}

Grids == UNION {[1..n -> RowChoices] : n \in 0..MaxRows}

SmallCatalogs ==
    {<<TileBlock("T1", <<RecNorth>>)>>,
     <<TileBlock("T1", <<RecNorth>>), TileBlock("T2", <<RecJump>>)>>}

SuperChoices ==
    {<<>>,
     <<SuperBlock("S", <<<<"T1">>, <<"T2">>>>)>>,
     <<SuperBlock("S", <<<<"T1", "Null">>>>)>>,
     <<SuperBlock("S", <<<<"T1", "X">>>>)>>}

\* a line of the parameter section: its first two non-empty fields
Param(key, value) == [key |-> key, value |-> value]

ParameterLists ==
    {<<>>,
     <<Param("FrameBitsPerRow", <<"8">>), Param("MaxFramesPerCol", <<"1", "0">>)>>,
     <<Param("ConfigBitMode", <<"F", "l", "i", "p", "F", "l", "o", "p", "C", "h", "a", "i", "n">>),
       Param("SuperTileEnable", <<"T", "R", "U", "E">>)>>,
     <<Param("MultiplexerStyle", <<"g", "e", "n", "e", "r", "i", "c">>),
       Param("GenerateDelayInSwitchMatrix", <<"5">>),
       Param("Package", <<"p">>)>>,
     <<Param("MultiplexerStyle", <<"m">>)>>,
     <<Param("ConfigBitMode", <<"m">>)>>,
     <<Param("Foo", <<"1">>)>>}

FabricFile(t, s, f, q) ==
    [tilesData |-> t, superTile |-> s, fabricDescription |-> f, parameters |-> q]

\* the files read: every tile block with one grid, every grid and super tile
\* section with a small catalog, and every parameter section
FabricFiles ==
    {FabricFile(<<TileBlock("T1", b)>>, <<>>, <<<<"T1">>>>, <<>>) : b \in Blocks}
    \cup {FabricFile(c, st, g, <<>>) :
              c \in SmallCatalogs, st \in SuperChoices, g \in Grids}
    \cup {FabricFile(<<TileBlock("T1", <<RecNorth>>)>>, <<>>, <<<<"T1">>>>, q) :
              q \in ParameterLists}

fabInput == <<tilesData, superTile, fabricDescription, parameters>>
tileLocals == <<ports, tileBels, tileCarry, matrixDir, withUserCLK,
               tileConfigBit, genMatrixList>>
tileLists == <<tileTypes, tileDefs, commonWirePair>>
fabLater == <<tileDic, superTileDic, stIdx, fabricTiles, usedTile, rowIdx,
             fabParams, fabric>>

\* the line the loop of line 93 looks at
temp == tilesData[tileIdx + 1].records[recIdx + 1]

AtRecord ==
    /\ fabPc = "records"
    /\ recIdx < Len(tilesData[tileIdx + 1].records)

\* lines 82-92: the next block; its first line (",name") has an empty first
\* field and is skipped by line 95
FabTileBegin ==
    /\ fabPc = "tiles"
    /\ tileIdx < Len(tilesData)
    /\ tileTypes' = Append(tileTypes, tilesData[tileIdx + 1].tileName)
    /\ ports' = <<>> /\ tileBels' = <<>> /\ tileCarry' = <<>>
    /\ matrixDir' = <<>> /\ withUserCLK' = FALSE /\ tileConfigBit' = 0
    /\ genMatrixList' = FALSE
    /\ recIdx' = 0
    /\ fabPc' = "records"
    /\ UNCHANGED <<fabInput, tileIdx, tileDefs, commonWirePair, fabLater>>
    /\ OnlyF

\* lines 95-96
FabBlank ==
    /\ AtRecord
    /\ temp.tag = ""
    /\ recIdx' = recIdx + 1
    /\ UNCHANGED <<fabInput, tileIdx, tileLocals, tileLists, fabLater, fabPc>>
    /\ OnlyF

\* lines 97-118 without the exception
FabWire ==
    /\ AtRecord
    /\ temp.tag \in Directions
    /\ ~(temp.f6 = "CARRY" /\ tileCarry # <<>>)
    /\ ports' = ports \o WirePorts(temp)
    /\ tileCarry' = IF temp.f6 = "CARRY" THEN CarryPair(temp) ELSE tileCarry
    /\ commonWirePair' = Append(commonWirePair, <<temp.f1, temp.f4>>)
    /\ recIdx' = recIdx + 1
    /\ UNCHANGED <<fabInput, tileIdx, tileBels, matrixDir, withUserCLK,
                   tileConfigBit, genMatrixList, tileTypes, tileDefs,
                   fabLater, fabPc>>
    /\ OnlyF

\* lines 97-115: a second carry chain in one tile
FabCarryRaise ==
    /\ AtRecord
    /\ temp.tag \in Directions
    /\ temp.f6 = "CARRY" /\ tileCarry # <<>>
    /\ ports' = ports \o WirePorts(temp)
    /\ fabPc' = "ValueError"
    /\ UNCHANGED <<fabInput, tileIdx, recIdx, tileBels, tileCarry, matrixDir,
                   withUserCLK, tileConfigBit, genMatrixList, tileLists,
                   fabLater>>
    /\ OnlyF

\* lines 120-124
FabJump ==
    /\ AtRecord
    /\ temp.tag = "JUMP"
    /\ ports' = ports \o JumpPorts(temp)
    /\ recIdx' = recIdx + 1
    /\ UNCHANGED <<fabInput, tileIdx, tileBels, tileCarry, matrixDir,
                   withUserCLK, tileConfigBit, genMatrixList, tileLists,
                   fabLater, fabPc>>
    /\ OnlyF

\* lines 125-137: unpacking the result assigns the tile's configBit
FabBel ==
    /\ AtRecord
    /\ temp.tag = "BEL"
    /\ IsHdl(temp.f1)
    /\ tileConfigBit' = temp.bits
    /\ tileBels' = Append(tileBels, Bel(temp))
    /\ withUserCLK' = (withUserCLK \/ temp.clk)
    /\ recIdx' = recIdx + 1
    /\ UNCHANGED <<fabInput, tileIdx, ports, tileCarry, matrixDir,
                   genMatrixList, tileLists, fabLater, fabPc>>
    /\ OnlyF

\* lines 131-133
FabBelRaise ==
    /\ AtRecord
    /\ temp.tag = "BEL"
    /\ ~IsHdl(temp.f1)
    /\ fabPc' = "ValueError"
    /\ UNCHANGED <<fabInput, tileIdx, recIdx, tileLocals, tileLists, fabLater>>
    /\ OnlyF

\* lines 138-145: a .list matrix
FabMatrixList ==
    /\ AtRecord
    /\ temp.tag = "MATRIX"
    /\ EndsWith(temp.f1, ExtList)
    /\ matrixDir' = temp.f1
    /\ tileConfigBit' = MatrixBits(ParseListSource(temp.lines))
    /\ recIdx' = recIdx + 1
    /\ UNCHANGED <<fabInput, tileIdx, ports, tileBels, tileCarry, withUserCLK,
                   genMatrixList, tileLists, fabLater, fabPc>>
    /\ OnlyF

\* lines 138-140, 151-159: a matrix source; bits is the number after
\* "NumberOfConfigBits: ", 0 when the file has none
FabMatrixHdl ==
    /\ AtRecord
    /\ temp.tag = "MATRIX"
    /\ ~EndsWith(temp.f1, ExtList)
    /\ IsHdl(temp.f1)
    /\ matrixDir' = temp.f1
    /\ tileConfigBit' = temp.bits
    /\ recIdx' = recIdx + 1
    /\ UNCHANGED <<fabInput, tileIdx, ports, tileBels, tileCarry, withUserCLK,
                   genMatrixList, tileLists, fabLater, fabPc>>
    /\ OnlyF

\* the path of line 161
GeneratedPath == <<"g">> \o ExtList

\* lines 138-140, 160-162
FabMatrixGenerate ==
    /\ AtRecord
    /\ temp.tag = "MATRIX"
    /\ ~EndsWith(temp.f1, ExtList) /\ ~IsHdl(temp.f1)
    /\ temp.f1 = GENERATE
    /\ matrixDir' = GeneratedPath
    /\ tileConfigBit' = 0
    /\ genMatrixList' = TRUE
    /\ recIdx' = recIdx + 1
    /\ UNCHANGED <<fabInput, tileIdx, ports, tileBels, tileCarry, withUserCLK,
                   tileLists, fabLater, fabPc>>
    /\ OnlyF

\* lines 138-140, 168-170
FabMatrixRaise ==
    /\ AtRecord
    /\ temp.tag = "MATRIX"
    /\ ~EndsWith(temp.f1, ExtList) /\ ~IsHdl(temp.f1)
    /\ temp.f1 # GENERATE
    /\ matrixDir' = temp.f1
    /\ tileConfigBit' = 0
    /\ fabPc' = "ValueError"
    /\ UNCHANGED <<fabInput, tileIdx, recIdx, ports, tileBels, tileCarry,
                   withUserCLK, genMatrixList, tileLists, fabLater>>
    /\ OnlyF

\* lines 171-173
FabUnknownRaise ==
    /\ AtRecord
    /\ temp.tag \notin Directions \cup {"", "JUMP", "BEL", "MATRIX"}
    /\ fabPc' = "ValueError"
    /\ UNCHANGED <<fabInput, tileIdx, recIdx, tileLocals, tileLists, fabLater>>
    /\ OnlyF

\* what generateSwitchmatrixList(tileName, bels, matrixDir, tileCarry)
\* returns for the block
Generated(records) ==
    LET g == SelectSeq(records, LAMBDA r : r.tag = "MATRIX" /\ r.f1 = GENERATE)
    IN  IF g = <<>> THEN 0 ELSE g[Len(g)].bits

\* lines 175-179
FabTileEnd ==
    /\ fabPc = "records"
    /\ recIdx = Len(tilesData[tileIdx + 1].records)
    /\ LET block == tilesData[tileIdx + 1]
           bits == IF genMatrixList
                   THEN tileConfigBit + Generated(block.records)
                   ELSE tileConfigBit
       IN  /\ tileConfigBit' = bits
           /\ tileDefs' = Append(tileDefs,
                  Tile(block.tileName, ports, tileBels, matrixDir,
                       withUserCLK, bits, <<"tile", tileIdx + 1>>))
    /\ tileIdx' = tileIdx + 1
    /\ fabPc' = "tiles"
    /\ UNCHANGED <<fabInput, recIdx, ports, tileBels, tileCarry, matrixDir,
                   withUserCLK, genMatrixList, tileTypes, commonWirePair,
                   fabLater>>
    /\ OnlyF

\* lines 181-185
FabCatalog ==
    /\ fabPc = "tiles"
    /\ tileIdx = Len(tilesData)
    /\ fabricTiles' = <<>>
    /\ tileDic' = ZipDict(<<>>, tileTypes, tileDefs)
    /\ superTileDic' = <<>>
    /\ stIdx' = 0
    /\ fabPc' = "super"
    /\ UNCHANGED <<fabInput, tileIdx, recIdx, tileLocals, tileLists, usedTile,
                   rowIdx, fabParams, fabric>>
    /\ OnlyF

\* [i for i in line if i != "" and i != " "]
SuperFields(line) == SelectSeq(line, LAMBDA i : i # "" /\ i # " ")

\* t not in tiles
InList(t, tiles) == \E k \in 1..Len(tiles) : SameTile(tiles[k], t)

RECURSIVE SuperRow(_, _)
\* lines 210-222: one row of a super tile; st carries tileDic, tiles, row
SuperRow(st, line) ==
    IF line = <<>> \/ st.err # "ok" THEN st
    ELSE LET j == Head(line)
         IN  IF j \in Keys(st.dic)
             THEN LET proto == [Get(st.dic, j) EXCEPT !.partOfSuperTile = TRUE]
                      t == deepcopy(proto, <<"super", stIdx + 1,
                                             Len(st.tileMap) + 1,
                                             Len(st.row) + 1>>)
                  IN  SuperRow([st EXCEPT
                                   !.dic = DictSet(st.dic, j, proto),
                                   !.row = Append(st.row, <<t>>),
                                   !.tiles = IF InList(t, st.tiles) THEN st.tiles
                                             ELSE Append(st.tiles, t)],
                               Tail(line))
             ELSE IF IsNullToken(j)
             THEN SuperRow([st EXCEPT !.row = Append(st.row, None)], Tail(line))
             ELSE [st EXCEPT !.err = "ValueError"]

RECURSIVE SuperRows(_, _)
\* lines 193-223 for rows that are not BEL lines
SuperRows(st, rows) ==
    IF rows = <<>> \/ st.err # "ok" THEN st
    ELSE LET r == SuperRow([st EXCEPT !.row = <<>>], SuperFields(Head(rows)))
         IN  IF r.err # "ok" THEN r
             ELSE SuperRows([r EXCEPT !.tileMap = Append(r.tileMap, r.row)],
                            Tail(rows))

\* lines 187-223 for one block
ParseSuper(dic, block) ==
    SuperRows([dic |-> dic, tiles |-> <<>>, tileMap |-> <<>>, row |-> <<>>,
               err |-> "ok"], block.rows)

\* SuperTile(name, tiles, tileMap, bels, withUserCLK)
SuperTile(name, tiles, tileMap) ==
    [name |-> name, tiles |-> tiles, tileMap |-> tileMap, bels |-> <<>>,
     withUserCLK |-> FALSE]

\* lines 186-225
FabSuperTile ==
    /\ fabPc = "super"
    /\ stIdx < Len(superTile)
    /\ LET block == superTile[stIdx + 1]
           r == ParseSuper(tileDic, block)
       IN  /\ r.err = "ok"
           /\ tileDic' = r.dic
           /\ superTileDic' = DictSet(superTileDic, block.name,
                                      SuperTile(block.name, r.tiles, r.tileMap))
    /\ stIdx' = stIdx + 1
    /\ UNCHANGED <<fabInput, tileIdx, recIdx, tileLocals, tileLists,
                   fabricTiles, usedTile, rowIdx, fabParams, fabric, fabPc>>
    /\ OnlyF

\* lines 220-222
FabSuperTileRaise ==
    /\ fabPc = "super"
    /\ stIdx < Len(superTile)
    /\ LET r == ParseSuper(tileDic, superTile[stIdx + 1])
       IN  /\ r.err # "ok"
           /\ tileDic' = r.dic
    /\ fabPc' = "ValueError"
    /\ UNCHANGED <<fabInput, tileIdx, recIdx, tileLocals, tileLists,
                   superTileDic, stIdx, fabricTiles, usedTile, rowIdx,
                   fabParams, fabric>>
    /\ OnlyF

\* lines 186, 228
FabSuperEnd ==
    /\ fabPc = "super"
    /\ stIdx = Len(superTile)
    /\ usedTile' = {}
    /\ rowIdx' = 0
    /\ fabPc' = "grid"
    /\ UNCHANGED <<fabInput, tileIdx, recIdx, tileLocals, tileLists, tileDic,
                   superTileDic, stIdx, fabricTiles, fabParams, fabric>>
    /\ OnlyF

RECURSIVE GridRow(_, _)
\* lines 234-242: st carries the row built so far and usedTile
GridRow(st, line) ==
    IF line = <<>> \/ st.err # "ok" THEN st
    ELSE LET i == Head(line)
         IN  IF i \in Keys(tileDic)
             THEN GridRow([st EXCEPT
                              !.row = Append(st.row,
                                  <<deepcopy(Get(tileDic, i),
                                             <<"grid", Len(fabricTiles) + 1,
                                               Len(st.row) + 1>>)>>),
                                     !.used = st.used \cup {i}],
                          Tail(line))
             ELSE IF IsNullToken(i)
             THEN GridRow([st EXCEPT !.row = Append(st.row, None)], Tail(line))
             ELSE [st EXCEPT !.err = "ValueError"]

fabricLineTmp == NonEmptyFields(fabricDescription[rowIdx + 1])

AtRow == fabPc = "grid" /\ rowIdx < Len(fabricDescription)

\* lines 229-233
FabGridBlank ==
    /\ AtRow
    /\ fabricLineTmp = <<>>
    /\ rowIdx' = rowIdx + 1
    /\ UNCHANGED <<fabInput, tileIdx, recIdx, tileLocals, tileLists, tileDic,
                   superTileDic, stIdx, fabricTiles, usedTile, fabParams,
                   fabric, fabPc>>
    /\ OnlyF

\* lines 229-243
FabGridRow ==
    /\ AtRow
    /\ fabricLineTmp # <<>>
    /\ LET r == GridRow([row |-> <<>>, used |-> usedTile, err |-> "ok"],
                        fabricLineTmp)
       IN  /\ r.err = "ok"
           /\ fabricTiles' = Append(fabricTiles, r.row)
           /\ usedTile' = r.used
    /\ rowIdx' = rowIdx + 1
    /\ UNCHANGED <<fabInput, tileIdx, recIdx, tileLocals, tileLists, tileDic,
                   superTileDic, stIdx, fabParams, fabric, fabPc>>
    /\ OnlyF

\* lines 241-242
FabGridRaise ==
    /\ AtRow
    /\ fabricLineTmp # <<>>
    /\ LET r == GridRow([row |-> <<>>, used |-> usedTile, err |-> "ok"],
                        fabricLineTmp)
       IN  /\ r.err # "ok"
           /\ usedTile' = r.used
    /\ fabPc' = "ValueError"
    /\ UNCHANGED <<fabInput, tileIdx, recIdx, tileLocals, tileLists, tileDic,
                   superTileDic, stIdx, fabricTiles, rowIdx, fabParams, fabric>>
    /\ OnlyF

\* the catalog left alone
KeepTiles(d, used) == d

\* lines 245-249
PruneTiles(d, used) == SelectSeq(d, LAMBDA item : item[1] \in used)

\* lines 250-254
PruneSuperTiles(d, used) ==
    SelectSeq(d, LAMBDA item :
        ~\E k \in 1..Len(item[2].tiles) : item[2].tiles[k].name \notin used)

FabPrune ==
    /\ fabPc = "grid"
    /\ rowIdx = Len(fabricDescription)
    /\ tileDic' = PruneTiles(tileDic, usedTile)
    /\ superTileDic' = PruneSuperTiles(superTileDic, usedTile)
    /\ fabPc' = "params"
    /\ UNCHANGED <<fabInput, tileIdx, recIdx, tileLocals, tileLists, stIdx,
                   fabricTiles, usedTile, rowIdx, fabParams, fabric>>
    /\ OnlyF

\* lines 259-265
DefaultParams ==
    [configBitMode |-> "FRAME_BASED", frameBitsPerRow |-> 32,
     maxFramesPerCol |-> 20, package |-> <<"use work.my_package.all;">>,
     generateDelayInSwitchMatrix |-> 80, multiplexerStyle |-> "CUSTOM",
     superTileEnable |-> TRUE, err |-> "ok"]

StrFrameBased == <<"f", "r", "a", "m", "e", "_", "b", "a", "s", "e", "d">>
StrFlipFlopChain == <<"F", "l", "i", "p", "F", "l", "o", "p", "C", "h", "a", "i", "n">>
StrCustom == <<"c", "u", "s", "t", "o", "m">>
StrGeneric == <<"g", "e", "n", "e", "r", "i", "c">>
StrTrue == <<"T", "R", "U", "E">>

\* lines 272-299 for one line whose first field is exactly a parameter name
SetParam(q, i) ==
    CASE i.key = "ConfigBitMode" ->
            IF i.value = StrFrameBased THEN [q EXCEPT !.configBitMode = "FRAME_BASED"]
            ELSE IF i.value = StrFlipFlopChain
            THEN [q EXCEPT !.configBitMode = "FLIPFLOP_CHAIN"]
            ELSE [q EXCEPT !.err = "ValueError"]
      [] i.key = "FrameBitsPerRow" -> [q EXCEPT !.frameBitsPerRow = IntOf(i.value)]
      [] i.key = "MaxFramesPerCol" -> [q EXCEPT !.maxFramesPerCol = IntOf(i.value)]
      [] i.key = "Package" -> [q EXCEPT !.package = i.value]
      [] i.key = "GenerateDelayInSwitchMatrix" ->
            [q EXCEPT !.generateDelayInSwitchMatrix = IntOf(i.value)]
      [] i.key = "MultiplexerStyle" ->
            IF i.value = StrCustom THEN [q EXCEPT !.multiplexerStyle = "CUSTOM"]
            ELSE IF i.value = StrGeneric
            THEN [q EXCEPT !.multiplexerStyle = "GENERIC"]
            ELSE [q EXCEPT !.err = "ValueError"]
      [] i.key = "SuperTileEnable" ->
            [q EXCEPT !.superTileEnable = (i.value = StrTrue)]
      [] OTHER -> [q EXCEPT !.err = "ValueError"]

RECURSIVE ParseParams(_, _)
\* lines 267-299
ParseParams(q, lines) ==
    IF lines = <<>> \/ q.err # "ok" THEN q
    ELSE ParseParams(SetParam(q, Head(lines)), Tail(lines))

FabParameters ==
    /\ fabPc = "params"
    /\ LET q == ParseParams(DefaultParams, parameters)
       IN  /\ q.err = "ok"
           /\ fabParams' = q
    /\ fabPc' = "return"
    /\ UNCHANGED <<fabInput, tileIdx, recIdx, tileLocals, tileLists, tileDic,
                   superTileDic, stIdx, fabricTiles, usedTile, rowIdx, fabric>>
    /\ OnlyF

FabParametersRaise ==
    /\ fabPc = "params"
    /\ ParseParams(DefaultParams, parameters).err # "ok"
    /\ fabPc' = "ValueError"
    /\ UNCHANGED <<fabInput, tileIdx, recIdx, tileLocals, tileLists, fabLater>>
    /\ OnlyF

\* lines 304-306
CommonWirePairs(pairs) ==
    SelectSeq(Dedup(pairs),
              LAMBDA w : ~ContainsSub(w[1], NULL) /\ ~ContainsSub(w[2], NULL))

\* lines 301-321
FabReturn ==
    /\ fabPc = "return"
    /\ fabricTiles # <<>>
    /\ commonWirePair' = CommonWirePairs(commonWirePair)
    /\ fabric' = [tile |-> fabricTiles,
                  numberOfColumns |-> Len(fabricTiles[1]),
                  numberOfRows |-> Len(fabricTiles),
                  configBitMode |-> fabParams.configBitMode,
                  frameBitsPerRow |-> fabParams.frameBitsPerRow,
                  maxFramesPerCol |-> fabParams.maxFramesPerCol,
                  package |-> fabParams.package,
                  generateDelayInSwitchMatrix |-> fabParams.generateDelayInSwitchMatrix,
                  multiplexerStyle |-> fabParams.multiplexerStyle,
                  numberOfBRAMs |-> Len(fabricTiles) \div 2,
                  superTileEnable |-> fabParams.superTileEnable,
                  tileDic |-> tileDic,
                  superTileDic |-> superTileDic,
                  commonWirePair |-> CommonWirePairs(commonWirePair)]
    /\ fabPc' = "done"
    /\ UNCHANGED <<fabInput, tileIdx, recIdx, tileLocals, tileTypes, tileDefs,
                   tileDic, superTileDic, stIdx, fabricTiles, usedTile, rowIdx,
                   fabParams>>
    /\ OnlyF

\* line 302 with no grid row: fabricTiles[0] does not exist
FabReturnRaise ==
    /\ fabPc = "return"
    /\ fabricTiles = <<>>
    /\ fabPc' = "IndexError"
    /\ UNCHANGED <<fabInput, tileIdx, recIdx, tileLocals, tileLists, fabLater>>
    /\ OnlyF

InitFabric ==
    /\ \E f \in FabricFiles :
          /\ tilesData = f.tilesData
          /\ superTile = f.superTile
          /\ fabricDescription = f.fabricDescription
          /\ parameters = f.parameters
    /\ tileIdx = 0 /\ recIdx = 0 /\ ports = <<>>
    /\ tileBels = <<>> /\ tileCarry = <<>> /\ matrixDir = <<>>
    /\ withUserCLK = FALSE /\ tileConfigBit = 0 /\ genMatrixList = FALSE
    /\ tileTypes = <<>> /\ tileDefs = <<>> /\ commonWirePair = <<>>
    /\ tileDic = <<>> /\ superTileDic = <<>> /\ stIdx = 0
    /\ fabricTiles = <<>> /\ usedTile = {} /\ rowIdx = 0
    /\ fabParams = <<>> /\ fabric = <<>>
    /\ fabPc = "tiles"
    /\ ExpandIdle
    /\ ListIdle
    /\ BelIdle
    /\ SwitchIdle
    /\ ConfigIdle

NextFabric ==
    \/ FabTileBegin
    \/ FabBlank
    \/ FabWire
    \/ FabCarryRaise
    \/ FabJump
    \/ FabBel
    \/ FabBelRaise
    \/ FabMatrixList
    \/ FabMatrixHdl
    \/ FabMatrixGenerate
    \/ FabMatrixRaise
    \/ FabUnknownRaise
    \/ FabTileEnd
    \/ FabCatalog
    \/ FabSuperTile
    \/ FabSuperTileRaise
    \/ FabSuperEnd
    \/ FabGridBlank
    \/ FabGridRow
    \/ FabGridRaise
    \/ FabPrune
    \/ FabParameters
    \/ FabParametersRaise
    \/ FabReturn
    \/ FabReturnRaise

SpecFabric == InitFabric /\ [][NextFabric]_vars

---------------------------------------------------------------------------
(* Claims about parseFabricCSV *)

\* the directional port declarations among the lines of a block
Declarations(records) ==
    SelectSeq(records, LAMBDA r : r.tag \in Directions \cup {"JUMP"})

OppositeSide(d) ==
    CASE d = "NORTH" -> "SOUTH"
      [] d = "SOUTH" -> "NORTH"
      [] d = "EAST" -> "WEST"
      [] d = "WEST" -> "EAST"

\* ps[2k-1], ps[2k] are the OUTPUT and the INPUT of declaration d
DeclaredPair(ps, k, d) ==
    LET out == ps[2 * k - 1]
        in == ps[2 * k]
    IN  /\ out.inOut = "OUTPUT" /\ in.inOut = "INPUT"
        /\ out.wireDirection = d.tag /\ in.wireDirection = d.tag
        /\ out.name = d.f1 /\ in.name = d.f4
        /\ out.sideOfTile = (IF d.tag = "JUMP" THEN "ANY" ELSE d.tag)
        /\ in.sideOfTile = (IF d.tag = "JUMP" THEN "ANY" ELSE OppositeSide(d.tag))

PortsMatch(ps, decls) ==
    /\ Len(ps) = 2 * Len(decls)
    /\ \A k \in 1..Len(decls) : DeclaredPair(ps, k, decls[k])

\* C8: the port list of every parsed tile block, and of the block being
\* read, holds exactly two Port records per NORTH/SOUTH/EAST/WEST/JUMP
\* declaration, adjacent and in declaration order: an OUTPUT on the declared
\* side, then an INPUT on the opposite side; both records of a JUMP have
\* side ANY.
C8_TwoPortsPerDeclaration ==
    /\ \A k \in 1..Len(tileDefs) :
           PortsMatch(tileDefs[k].portsInfo, Declarations(tilesData[k].records))
    /\ fabPc = "records" =>
           PortsMatch(ports,
               Declarations(SubSeq(tilesData[tileIdx + 1].records, 1, recIdx)))

\* a parsed tile whose block declares a JUMP and a sided wire
C8_Witness ==
    \E k \in 1..Len(tileDefs) :
        LET decls == Declarations(tilesData[k].records)
        IN  /\ Len(tileDefs[k].portsInfo) = 4
            /\ \E a, b \in 1..Len(decls) :
                   decls[a].tag = "JUMP" /\ decls[b].tag \in Directions

\* the tile names in the non-empty cells of a grid
CellNames(grid) ==
    UNION {{grid[r][c][1].name : c \in {c \in 1..Len(grid[r]) : grid[r][c] # None}} :
              r \in 1..Len(grid)}

\* the grid entries that are neither a tile name of the file nor an
\* empty-cell marker
UnknownEntries ==
    LET names == {tilesData[k].tileName : k \in 1..Len(tilesData)}
    IN  UNION {{line[c] : c \in {c \in 1..Len(line) :
                                   /\ line[c] # ""
                                   /\ line[c] \notin names
                                   /\ ~IsNullToken(line[c])}} :
                  line \in {fabricDescription[r] : r \in 1..Len(fabricDescription)}}

\* C9: in every returned Fabric the keys of the tile catalog are exactly the
\* tile names in the non-empty grid cells (every non-empty cell names a
\* catalog tile, every tile type placed nowhere has been removed), and a
\* grid entry that is neither a tile name nor an empty-cell marker stops the
\* assembly at the grid: no later step runs and nothing is returned.
C9_CatalogMatchesGrid ==
    /\ fabPc = "done" => Keys(fabric.tileDic) = CellNames(fabric.tile)
    /\ fabPc \in {"params", "return", "done", "IndexError"} => UnknownEntries = {}

\* a returned Fabric with a placed tile, from a file that also defines T2
\* and places it nowhere
C9_Witness ==
    /\ fabPc = "done"
    /\ CellNames(fabric.tile) # {}
    /\ \E k \in 1..Len(tileTypes) :
           tileTypes[k] = "T2" /\ "T2" \notin CellNames(fabric.tile)

\* C10: every returned Fabric has a rectangular grid: numberOfRows rows,
\* each of exactly numberOfColumns cells (a grid whose non-blank rows differ
\* in cell count is not returned).
C10_RectangularGrid ==
    fabPc = "done" =>
        /\ Len(fabric.tile) = fabric.numberOfRows
        /\ \A r \in 1..Len(fabric.tile) :
               Len(fabric.tile[r]) = fabric.numberOfColumns

\* the objects in the non-empty cells of a grid, each with its position
CellObjects(where, k, grid) ==
    UNION {{<<<<where, k, r, c>>, grid[r][c][1]>> :
               c \in {c \in 1..Len(grid[r]) : grid[r][c] # None}} :
              r \in 1..Len(grid)}

\* every place of the returned model that holds a tile: the catalog
\* entries, the grid cells, the placement cells of the super tiles
TileHolders(f) ==
    {<<<<"catalog", k, 0, 0>>, f.tileDic[k][2]>> : k \in 1..Len(f.tileDic)}
    \cup CellObjects("grid", 0, f.tile)
    \cup UNION {CellObjects("placement", k, f.superTileDic[k][2].tileMap) :
                   k \in 1..Len(f.superTileDic)}

\* C11: in the returned model every non-empty grid cell and every non-empty
\* super-tile placement cell is an object of its own, distinct from the
\* catalog prototypes and from every other cell (cells of one tile type
\* included), so that a write to one of them reaches no other.
C11_CellsAreOwnObjects ==
    fabPc = "done" =>
        \A h1, h2 \in TileHolders(fabric) :
            h1[1] # h2[1] => h1[2].oid # h2[2].oid

\* a returned model with two grid cells of one tile type and a super tile
C11_Witness ==
    /\ fabPc = "done"
    /\ fabric.superTileDic # <<>>
    /\ \E h1, h2 \in CellObjects("grid", 0, fabric.tile) :
           h1[1] # h2[1] /\ h1[2].name = h2[2].name

\* C12: assembling the super tiles leaves the catalog prototypes unchanged:
\* in the returned model the part-of-super-tile flag is unset on every
\* catalog prototype and on every fabric-grid cell, and set only on the
\* placement copies of the super tiles.
C12_PrototypesUnflagged ==
    fabPc = "done" =>
        \A h \in TileHolders(fabric) :
            h[1][1] \in {"catalog", "grid"} => ~h[2].partOfSuperTile

---------------------------------------------------------------------------
(* parseConfigMem: the frame layout parser.

   A row of the csv file is the dict csv.DictReader yields for it; the
   columns read are frame_name, frame_index, used_bits_mask and
   ConfigBits_ranges. *)

MaxFrames == 2
MaxFrameBits == 2
MaxGlobalBits == 4

\* entry["used_bits_mask"].replace("_", "")
StripMask(mask) == Remove(mask, "_")

\* entry["used_bits_mask"].count("1")
MaskOnes(mask) == Count(mask, "1")

\* entry["ConfigBits_ranges"].replace(" ", "").replace("\t", "")
StripRanges(r) == Remove(Remove(r, " "), "\t")

RECURSIVE CheckMasks(_, _)
\* lines 859-867: the total of used bits, or the error of the first bad mask
CheckMasks(counter, rows) ==
    IF rows = <<>> THEN [counter |-> counter, err |-> "ok"]
    ELSE LET mask == Head(rows).used_bits_mask
         IN  IF MaskOnes(mask) > frameBitPerRow \/ Len(mask) # frameBitPerRow
             THEN [counter |-> counter, err |-> "ValueError"]
             ELSE CheckMasks(counter + MaskOnes(mask), Tail(rows))

\* lines 884-888
NumList(left, right) ==
    IF right < left
    THEN [k \in 1..(left - right + 1) |-> left - k + 1]
    ELSE [k \in 1..(right - left + 1) |-> left + k - 1]

\* i in allConfigBitsOrder
Allocated(i) == \E k \in 1..Len(allConfigBitsOrder) : allConfigBitsOrder[k] = i

RECURSIVE TakeFree(_, _)
\* lines 890-894 and 897-901: the indices appended to configBitsOrder, or
\* the error raised at the first index that an earlier row allocated
TakeFree(order, nums) ==
    IF nums = <<>> THEN [order |-> order, err |-> "ok"]
    ELSE IF Allocated(Head(nums)) THEN [order |-> order, err |-> "ValueError"]
    ELSE TakeFree(Append(order, Head(nums)), Tail(nums))

\* ConfigMem(frameName, frameIndex, bitsUsedInFrame, usedBitMask, configBitRanges)
ConfigMem(entry, configBitsOrder) ==
    [frameName |-> entry.frame_name,
     frameIndex |-> IntOf(entry.frame_index),
     bitsUsedInFrame |-> MaskOnes(entry.used_bits_mask),
     usedBitMask |-> entry.used_bits_mask,
     configBitRanges |-> configBitsOrder]

\* lines 910-919
AfterRow(entry, configBitsOrder) ==
    /\ allConfigBitsOrder' = allConfigBitsOrder \o configBitsOrder
    /\ configMemEntry' =
           IF MaskOnes(entry.used_bits_mask) > 0
           THEN Append(configMemEntry, ConfigMem(entry, configBitsOrder))
           ELSE configMemEntry

Frame(name, index, mask, ranges) ==
    [frame_name |-> name, frame_index |-> index, used_bits_mask |-> mask,
     ConfigBits_ranges |-> ranges]

FrDown == Frame("a", <<"0">>, <<"1", "_", "1">>, <<"1", ":", "0">>)
FrUp == Frame("b", <<"1">>, <<"1", "1">>, <<"0", " ", ":", " ", "1">>)
FrList == Frame("c", <<"2">>, <<"1", "0">>, <<"2", ";", "3">>)
FrListTwice == Frame("d", <<"3">>, <<"1", "0">>, <<"3", ";", "3">>)
FrNullUsed == Frame("e", <<"4">>, <<"0", "1">>, NULL)
FrNullUnused == Frame("f", <<"5">>, <<"0", "0">>, NULL)
FrUnused == Frame("g", <<"6">>, <<"0", "0">>, <<"4", ";", "5">>)
FrSingle == Frame("h", <<"7">>, <<"1", "0">>, <<"5">>)
FrShort == Frame("i", <<"8">>, <<"1">>, <<"0", ":", "0">>)
FrLong == Frame("j", <<"9">>, <<"1", "1", "1">>, <<"0", ":", "2">>)

FrameChoices ==
    {FrDown, FrUp, FrList, FrListTwice, FrNullUsed, FrNullUnused, FrUnused,
     FrSingle, FrShort, FrLong}

MappingFiles == UNION {[1..n -> FrameChoices] : n \in 0..MaxFrames}

cmArgs == <<maxFramePerCol, frameBitPerRow, globalConfigBits>>

\* lines 845-856
CmStrip ==
    /\ cmPc = "strip"
    /\ mappingFile' = [i \in 1..Len(mappingFile) |->
           [mappingFile[i] EXCEPT !.used_bits_mask = StripMask(@)]]
    /\ cmPc' = IF Len(mappingFile) # maxFramePerCol THEN "ValueError" ELSE "masks"
    /\ UNCHANGED <<cmArgs, usedBitsCounter, allConfigBitsOrder, configMemEntry,
                   cmIdx, cmReturn>>
    /\ OnlyC

\* lines 859-873
CmMasks ==
    /\ cmPc = "masks"
    /\ LET r == CheckMasks(0, mappingFile)
       IN  /\ r.err = "ok"
           /\ r.counter = globalConfigBits
           /\ usedBitsCounter' = r.counter
    /\ allConfigBitsOrder' = <<>>
    /\ configMemEntry' = <<>>
    /\ cmIdx' = 0
    /\ cmPc' = "rows"
    /\ UNCHANGED <<mappingFile, cmArgs, cmReturn>>
    /\ OnlyC

\* lines 861-866
CmMasksRaise ==
    /\ cmPc = "masks"
    /\ LET r == CheckMasks(0, mappingFile)
       IN  /\ r.err # "ok"
           /\ usedBitsCounter' = r.counter
    /\ cmPc' = "ValueError"
    /\ UNCHANGED <<mappingFile, cmArgs, allConfigBitsOrder, configMemEntry,
                   cmIdx, cmReturn>>
    /\ OnlyC

\* lines 869-871
CmTotalRaise ==
    /\ cmPc = "masks"
    /\ LET r == CheckMasks(0, mappingFile)
       IN  /\ r.err = "ok"
           /\ r.counter # globalConfigBits
           /\ usedBitsCounter' = r.counter
    /\ cmPc' = "ValueError"
    /\ UNCHANGED <<mappingFile, cmArgs, allConfigBitsOrder, configMemEntry,
                   cmIdx, cmReturn>>
    /\ OnlyC

AtFrame == cmPc = "rows" /\ cmIdx < Len(mappingFile)

\* lines 877-878: the row the loop of line 875 looks at, its range spec
\* stripped of blanks
entry ==
    [mappingFile[cmIdx + 1] EXCEPT !.ConfigBits_ranges = StripRanges(@)]

\* the indices a range spec left:right names
RangeNums(r) ==
    LET parts == Split(r, ":") IN NumList(IntOf(parts[1]), IntOf(parts[2]))

\* the indices a list spec a;b;... names
ListNums(r) ==
    LET items == Split(r, ";") IN [k \in 1..Len(items) |-> IntOf(items[k])]

\* what a row leaves behind when it raises
CmRaise ==
    /\ mappingFile' = [mappingFile EXCEPT ![cmIdx + 1] = entry]
    /\ cmPc' = "ValueError"
    /\ UNCHANGED <<cmArgs, usedBitsCounter, allConfigBitsOrder,
                   configMemEntry, cmIdx, cmReturn>>

\* what a row leaves behind when the loop goes on
CmNext ==
    /\ mappingFile' = [mappingFile EXCEPT ![cmIdx + 1] = entry]
    /\ cmIdx' = cmIdx + 1
    /\ UNCHANGED <<cmArgs, usedBitsCounter, cmReturn, cmPc>>

\* lines 880-894, 910-919
CmRange ==
    /\ AtFrame
    /\ Contains(entry.ConfigBits_ranges, ":")
    /\ LET r == TakeFree(<<>>, RangeNums(entry.ConfigBits_ranges))
       IN  /\ r.err = "ok"
           /\ AfterRow(entry, r.order)
    /\ CmNext
    /\ OnlyC

\* lines 891-893
CmRangeRaise ==
    /\ AtFrame
    /\ Contains(entry.ConfigBits_ranges, ":")
    /\ TakeFree(<<>>, RangeNums(entry.ConfigBits_ranges)).err # "ok"
    /\ CmRaise
    /\ OnlyC

\* lines 896-901, 910-919
CmList ==
    /\ AtFrame
    /\ ~Contains(entry.ConfigBits_ranges, ":")
    /\ Contains(entry.ConfigBits_ranges, ";")
    /\ LET r == TakeFree(<<>>, ListNums(entry.ConfigBits_ranges))
       IN  /\ r.err = "ok"
           /\ AfterRow(entry, r.order)
    /\ CmNext
    /\ OnlyC

\* lines 898-900
CmListRaise ==
    /\ AtFrame
    /\ ~Contains(entry.ConfigBits_ranges, ":")
    /\ Contains(entry.ConfigBits_ranges, ";")
    /\ TakeFree(<<>>, ListNums(entry.ConfigBits_ranges)).err # "ok"
    /\ CmRaise
    /\ OnlyC

\* lines 903-904: continue, past lines 910-919
CmNull ==
    /\ AtFrame
    /\ ~Contains(entry.ConfigBits_ranges, ":")
    /\ ~Contains(entry.ConfigBits_ranges, ";")
    /\ ContainsSub(entry.ConfigBits_ranges, NULL)
    /\ UNCHANGED <<allConfigBitsOrder, configMemEntry>>
    /\ CmNext
    /\ OnlyC

\* lines 906-908
CmInvalidRaise ==
    /\ AtFrame
    /\ ~Contains(entry.ConfigBits_ranges, ":")
    /\ ~Contains(entry.ConfigBits_ranges, ";")
    /\ ~ContainsSub(entry.ConfigBits_ranges, NULL)
    /\ CmRaise
    /\ OnlyC

\* line 921
CmReturn ==
    /\ cmPc = "rows"
    /\ cmIdx = Len(mappingFile)
    /\ cmReturn' = configMemEntry
    /\ cmPc' = "done"
    /\ UNCHANGED <<mappingFile, cmArgs, usedBitsCounter, allConfigBitsOrder,
                   configMemEntry, cmIdx>>
    /\ OnlyC

InitConfigMem ==
    /\ mappingFile \in MappingFiles
    /\ maxFramePerCol \in 0..MaxFrames
    /\ frameBitPerRow \in 1..MaxFrameBits
    /\ globalConfigBits \in 0..MaxGlobalBits
    /\ usedBitsCounter = 0
    /\ allConfigBitsOrder = <<>>
    /\ configMemEntry = <<>>
    /\ cmIdx = 0
    /\ cmReturn = <<>>
    /\ cmPc = "strip"
    /\ ExpandIdle
    /\ ListIdle
    /\ BelIdle
    /\ SwitchIdle
    /\ FabricIdle

NextConfigMem ==
    \/ CmStrip
    \/ CmMasks
    \/ CmMasksRaise
    \/ CmTotalRaise
    \/ CmRange
    \/ CmRangeRaise
    \/ CmList
    \/ CmListRaise
    \/ CmNull
    \/ CmInvalidRaise
    \/ CmReturn

SpecConfigMem == InitConfigMem /\ [][NextConfigMem]_vars

---------------------------------------------------------------------------
(* Claims about parseConfigMem *)

\* C13: whenever parseConfigMem returns, no global configuration-bit index
\* has been allocated twice: in the resolved index lists of all rows, taken
\* in file order, no index occurs more than once, be it in two rows or
\* inside one row's range spec.
C13_NoIndexTwice ==
    cmPc = "done" =>
        \A i, j \in 1..Len(allConfigBitsOrder) :
            i # j => allConfigBitsOrder[i] # allConfigBitsOrder[j]

\* the index list a range spec resolves to; none for the no-bits marker
Resolved(r) ==
    IF Contains(r, ":") THEN RangeNums(r)
    ELSE IF Contains(r, ";") THEN ListNums(r)
    ELSE <<>>

RECURSIVE UsedFrames(_)
\* one ConfigMem per row whose mask has a '1', in file order
UsedFrames(rows) ==
    IF rows = <<>> THEN <<>>
    ELSE (IF MaskOnes(Head(rows).used_bits_mask) > 0
          THEN <<ConfigMem(Head(rows), Resolved(Head(rows).ConfigBits_ranges))>>
          ELSE <<>>)
         \o UsedFrames(Tail(rows))

RECURSIVE SumBitsUsed(_)
SumBitsUsed(mems) ==
    IF mems = <<>> THEN 0
    ELSE Head(mems).bitsUsedInFrame + SumBitsUsed(Tail(mems))

\* C14: on success parseConfigMem returns, in file order, exactly one
\* ConfigMem per row whose mask has at least one '1', carrying the row's
\* resolved index list (empty for the no-bits marker), and none for a row
\* whose mask has no '1'; so the used-bit counts of the returned records
\* sum to the global configuration-bit count.
C14_OnePerUsedFrame ==
    cmPc = "done" =>
        /\ cmReturn = UsedFrames(mappingFile)
        /\ SumBitsUsed(cmReturn) = globalConfigBits

---------------------------------------------------------------------------
(* More claims about generateSwitchmatrixList *)

\* the lines of the written file before the carry-chain comment
BeforeCarry(lines) ==
    IF \E k \in 1..Len(lines) : lines[k] = CarryComment
    THEN SubSeq(lines, 1,
                (CHOOSE k \in 1..Len(lines) :
                     lines[k] = CarryComment
                     /\ \A j \in 1..(k-1) : lines[j] # CarryComment) - 1)
    ELSE lines

\* every accumulated source paired with each of its sinks
ConnectionPairs(conn) ==
    UNION {{<<conn[k][1], conn[k][2][i]>> : i \in 1..Len(conn[k][2])} :
              k \in 1..Len(conn)}

\* C15: round trip: parseList in pair mode, run on the lines of the written
\* file before the carry-chain comment, yields exactly the set of
\* (source, sink) connections the synthesizer accumulated.
C15_RoundTrip ==
    smPc = "done" =>
        LET r == ParseLines(<<>>, BeforeCarry(outFile))
        IN  /\ r.err = "ok"
            /\ Range(Dedup(r.pairs)) = ConnectionPairs(connections)

\* what the claim has a source add: its connection line, then the warning
\* when the number of sinks is odd and above 1
LinesWithTrailingWarning(source, sinks) ==
    (IF Len(sinks) = 1 THEN <<DirectLine(source, sinks[1])>>
     ELSE <<AlternationLine(source, sinks)>>)
    \o (IF Len(sinks) % 2 # 0 /\ Len(sinks) > 1
        THEN <<WarningLine(Len(sinks), source)>> ELSE <<>>)

\* C16: for each accumulated source, in accumulation order, exactly one
\* connection line is emitted (direct for one sink, a bracketed alternation
\* of its sinks in order for two or more); a warning comment naming the
\* source follows immediately after the alternation line of a source whose
\* sink count is odd and above 1, and no other warning line is emitted.
C16_LinePerSource ==
    smPc = "done" =>
        BeforeCarry(outFile) =
            Flatten([k \in 1..Len(connections) |->
                LinesWithTrailingWarning(connections[k][1], connections[k][2])])

\* the lines of the written file after the carry-chain comment
AfterCarry(lines) == SubSeq(lines, Len(BeforeCarry(lines)) + 2, Len(lines))

\* the chain the claim describes for the bels bs and the tile's carry pair
CarryChain(bs, tile) ==
    [k \in 1..(Len(bs) + 1) |->
        IF k = 1
        THEN DirectLine(Get(bs[1].carry, "INPUT"), Get(tile, "INPUT"))
        ELSE IF k <= Len(bs)
        THEN DirectLine(Get(bs[k].carry, "INPUT"), Get(bs[k - 1].carry, "OUTPUT"))
        ELSE DirectLine(Get(tile, "OUTPUT"), Get(bs[Len(bs)].carry, "OUTPUT"))]

\* C17: when the tile declares a carry pair and each of its n >= 1 bels has
\* a carry input and a carry output, the lines after the carry comment are
\* exactly n+1 direct lines: the first bel's carry input with the tile's
\* carry input, bel k's carry input with bel k-1's carry output, and the
\* tile's carry output with the last bel's carry output.
C17_CarryChain ==
    (smPc = "done" /\ carryportsTile # <<>> /\ Len(bels) >= 1) =>
        /\ \E k \in 1..Len(outFile) : outFile[k] = CarryComment
        /\ AfterCarry(outFile) = CarryChain(bels, carryportsTile)

\* a written chain through two bels
C17_Witness ==
    /\ smPc = "done" /\ carryportsTile # <<>> /\ Len(bels) = 2
    /\ Len(AfterCarry(outFile)) = 3

---------------------------------------------------------------------------
(* A claim about _belMapProcessing *)

\* a dict of dicts as the set of its items, each inner dict a set of items
AsItems(d) == {<<d[i][1], Range(d[i][2])>> : i \in 1..Len(d)}

\* the map of an n-bit ranged feature: value v spelt in n bits, position
\* n-1 first
ValueTable(n) ==
    {<<v, {<<n - j, FormatBin(v, n)[j]>> : j \in 1..n}>> : v \in 0..(Pow2(n) - 1)}

\* C18: a ranged feature name=hi:lo with n = |hi-lo|+1 gets exactly 2^n
\* entries keyed 0..2^n-1, and the entry of value v holds exactly the n bit
\* positions n-1..0, spelling the n-bit binary form of v itself, most
\* significant bit first, for descending and for ascending ranges.
C18_RangedFeature ==
    belPc \notin {"idle", "map"} =>
        \A k \in 1..Len(belMap) :
            LET bel == Split(belMap[k], "=")
            IN  Contains(bel[2], ":") =>
                    LET r == Split(bel[2], ":")
                        hi == ParseInt(r[1])
                        lo == ParseInt(r[2])
                        n == (IF hi > lo THEN hi - lo ELSE lo - hi) + 1
                    IN  AsItems(Get(belMapDic, BelKey(bel[1]))) = ValueTable(n)

---------------------------------------------------------------------------
(* A claim about the termination of _expandListPorts *)

\* C19: _expandListPorts ends on every input, returning its expansion or
\* failing with its own error, after a number of nested calls bounded by
\* the length of the input (RecursionLimit exceeds every input length
\* here); so also on inputs with a ']' before the first '['.
C19_Terminates ==
    ExpandDone => expOutcome \in {"ok", "ValueError"}

---------------------------------------------------------------------------
(* A claim about the names in the synthesized list *)

\* the generic slot names of the template
SlotNames ==
    {InputSlot(i) : i \in 0..(MaxBelInputs - 1)}
    \cup {OutputSlot(i) : i \in 0..(MaxBelOutputs - 1)}

\* C20: in every emitted list no connection has a generic template slot
\* name as its source or as its sink: a pair whose source is still a slot
\* is dropped, and a sink that is still a slot is replaced by a real sink.
C20_NoSlotNames ==
    smPc = "done" =>
        \A pair \in ConnectionPairs(connections) :
            pair[1] \notin SlotNames /\ pair[2] \notin SlotNames

---------------------------------------------------------------------------
(* A claim about bels without carry ports *)

\* the ports of the bels bs, in order, that are not the bel's carry port
NonCarry(bs, side, io) ==
    Flatten([k \in 1..Len(bs) |->
        IF io \in Keys(bs[k].carry)
        THEN RemoveFirst(bs[k][side], Get(bs[k].carry, io))
        ELSE bs[k][side]])

\* each bel has a carry input and a carry output, or neither
BothOrNone(bs) ==
    \A k \in 1..Len(bs) :
        ("INPUT" \in Keys(bs[k].carry)) <=> ("OUTPUT" \in Keys(bs[k].carry))

\* at most 32 inputs and 8 outputs that are not carry ports
WithinCapacity(bs) ==
    /\ Len(NonCarry(bs, "inputs", "INPUT")) <= MaxBelInputs
    /\ Len(NonCarry(bs, "outputs", "OUTPUT")) <= MaxBelOutputs

\* C21: for every bel list within capacity in which each bel has both carry
\* ports or none, the port inventory is gathered without error: the
\* inventory holds every port that is not a carry port (all the ports of a
\* bel without carry ports), the bel carry lists hold one entry per bel with
\* carry ports, and the written list has the carry comment and carry lines
\* if and only if the tile declares a carry pair and some bel has carry
\* ports.
C21_CarryOptional ==
    (BothOrNone(bels) /\ WithinCapacity(bels)) =>
        /\ smPc # "KeyError"
        /\ smPc \in {"template", "walk", "emit", "carry"} =>
               /\ belIns = NonCarry(bels, "inputs", "INPUT")
               /\ belOuts = NonCarry(bels, "outputs", "OUTPUT")
               /\ Len(Get(carryports, "INPUT")) =
                      Cardinality({k \in 1..Len(bels) : bels[k].carry # <<>>})
        /\ smPc = "done" =>
               ((\E k \in 1..Len(outFile) : outFile[k] = CarryComment)
                <=> (carryportsTile # <<>>
                     /\ \E k \in 1..Len(bels) : bels[k].carry # <<>>))

---------------------------------------------------------------------------
(* A claim about the order of the BEL and MATRIX records of a tile *)

\* lines 140-162: the count a MATRIX record leaves in configBit
MatrixCount(r) ==
    IF EndsWith(r.f1, ExtList) THEN MatrixBits(ParseListSource(r.lines))
    ELSE IF IsHdl(r.f1) THEN r.bits
    ELSE 0

RECURSIVE CountRecords(_, _)
\* lines 93-173 for configBit alone, on a block that raises nothing: line
\* 134 assigns it, lines 140-162 assign it, every other record leaves it
CountRecords(records, bits) ==
    IF records = <<>> THEN bits
    ELSE LET r == Head(records)
         IN  CountRecords(Tail(records),
                 IF r.tag = "BEL" THEN r.bits
                 ELSE IF r.tag = "MATRIX" THEN MatrixCount(r)
                 ELSE bits)

\* lines 91-179: the configBit handed to Tile(...) for a block that raises
\* nothing
TileCount(records) ==
    CountRecords(records, 0)
    + (IF \E k \in 1..Len(records) :
              records[k].tag = "MATRIX" /\ records[k].f1 = GENERATE
       THEN Generated(records) ELSE 0)

\* the blocks with the records of recs in which only the places of the
\* MATRIX records among the other records differ
Reorderings(recs) ==
    {[k \in 1..Len(recs) |-> recs[p[k]]] :
        p \in {q \in [1..Len(recs) -> 1..Len(recs)] :
                  /\ \A i, j \in 1..Len(recs) : i # j => q[i] # q[j]
                  /\ \A i, j \in 1..Len(recs) :
                         (i < j /\ (recs[q[i]].tag = "MATRIX"
                                       <=> recs[q[j]].tag = "MATRIX"))
                         => q[i] < q[j]}}

\* the last MATRIX record among the first n records, if there is one
LastMatrix(recs, n) ==
    LET ks == {k \in 1..n : recs[k].tag = "MATRIX"}
    IN  IF ks = {} THEN None
        ELSE <<recs[CHOOSE k \in ks : \A j \in ks : j <= k]>>

\* C22: the configuration-bit count of a tile does not depend on where the
\* MATRIX record stands among the BEL records of its block: every block
\* with the same records, the MATRIX record before or after the BEL
\* records, gets the count the tile has; and while the block is read, once
\* a MATRIX record has been read the count is the one of the connectivity
\* source, which no BEL record overwrites.
C22_OrderIndependent ==
    /\ \A k \in 1..Len(tileDefs) :
           \A q \in Reorderings(tilesData[k].records) :
               tileDefs[k].configBit = TileCount(q)
    /\ (fabPc = "records" /\ LastMatrix(tilesData[tileIdx + 1].records, recIdx) # None)
           => tileConfigBit =
                  MatrixCount(LastMatrix(tilesData[tileIdx + 1].records, recIdx)[1])

---------------------------------------------------------------------------
(* A claim about the count of a generated list read back as a stored list *)

\* C23: the configuration-bit count generateSwitchmatrixList returns equals
\* the count the assembler computes for the written file as a stored .list
\* source: parseList in source mode reads the file without error, and the
\* mux bits summed over its sources with two or more sinks are the
\* returned count; so also when substitution or redirection gives a source
\* the same sink more than once.
C23_CountAsStoredList ==
    smPc = "done" =>
        LET r == ParseLines(<<>>, outFile)
        IN  /\ r.err = "ok"
            /\ smReturn = MatrixBits(CollectSource(<<>>, Dedup(r.pairs)))

====
